---- MODULE Spec2Model ----
(***************************************************************************)
(* A model of the PHP runtime management layer of wp-playground:           *)
(*   - the PHP instance wrapper (class PHP, src/unnamed/part_002): run(),  *)
(*     its execution semaphore, event dispatch, crash handling, exit();    *)
(*   - the process pool manager (PHPProcessManager), whose source is not   *)
(*     part of the source tree at hand: it is modelled from the            *)
(*     specification (section 4.4) and from the behaviour its test file    *)
(*     src/packages/php-wasm/node/src/test/php-process-manager.spec.ts     *)
(*     pins down.                                                          *)
(* Two specifications share the module: SpecPool drives the pool, Spec     *)
(* drives one PHP instance.                                                *)
(***************************************************************************)
EXTENDS Integers, Sequences, FiniteSets, TLC

\* ------------------------------------------------------------------------
\* Bounds of the model
\* ------------------------------------------------------------------------

\* Largest maxPhpInstances a pool is configured with.
MaxCap == 3

\* Number of getPrimaryPhp()/acquirePHPInstance() calls issued on a pool.
MaxCalls == 5

\* Number of run() calls issued on a PHP instance.
MaxRuns == 2

\* Number of other public operations invoked on a PHP instance.
MaxOps == 1

\* Number of run() calls issued when requests of every shape and responses
\* of several statuses are drawn.
MaxDetailRuns == 1

\* Number of run() calls issued when only run() calls are made.
MaxFifoRuns == 3

\* Number of filesystem and lifecycle operations invoked when no run() is
\* made.
MaxFsOps == 4

\* Number of operations other than run() invoked when runtimes are detached
\* and attached, and the number of run() calls made meanwhile.
MaxLifeOps == 3

MaxLifeRuns == 2

\* Number of listener registrations, removals and dispatches made when only
\* those are made.
MaxEventOps == 4

\* Message listeners registered and messages pushed by the running program.
MaxMessageListeners == 3

MaxMessages == 1

\* Public operations on the instance whose filesystem has mounts.
MaxCopyOps == 5

VARIABLES
    \* ---- process pool manager ----
    maxPhpInstances,   \* configured cap (options.maxPhpInstances)
    primaryPhp,        \* the primary instance, 0 while there is none
    primaryIdle,       \* TRUE while no caller holds the primary
    nextInstance,      \* the spawn started ahead of demand, 0 when none
    allInstances,      \* spawns started and neither failed nor reaped
    poolRunning,       \* pool semaphore: slots taken
    poolQueue,         \* pool semaphore: spawns waiting for a slot, FIFO
    spawns,            \* every spawn ever started: [isPrimary, st]
    calls,             \* every pool call ever issued: [kind, spawn, st, php, reaped]
    factoryCalls,      \* number of phpFactory invocations so far
    hist               \* the pool operations in the order they were issued

poolVars == <<maxPhpInstances, primaryPhp, primaryIdle, nextInstance,
              allInstances, poolRunning, poolQueue, spawns, calls,
              factoryCalls, hist>>

VARIABLES
    \* ---- one PHP instance ----
    runtime,              \* the loaded runtime the instance owns, 0 when none
    nextRuntime,          \* the id the next loaded runtime gets
    webSapiInitialized,   \* #webSapiInitialized
    sapiName,             \* #sapiName, "" while unset
    engineSapiName,       \* the SAPI name of the attached runtime's engine,
                          \* "" while it is the engine's default
    listeners,            \* #eventListeners: event type -> listeners, in order
    messageListeners,     \* #messageListeners, in the order of registration
    messages,             \* the messages the program pushed: [invoked, st, reply]
    files,                \* the loaded runtime's filesystem: path -> node
    heap,                 \* body buffers allocated in engine memory
    semRunning,           \* execution semaphore: slots taken
    semQueue,             \* execution semaphore: run() calls waiting, FIFO
    runs,                 \* every run() call: [req, pc, ptr, outcome, ...]
    events,               \* the events dispatched, in order
    stubs,                \* methods rebound to the throwing stub by a crash
    crashed,              \* an engine fault was caught by #handleRequest
    lastOp,               \* the last public operation other than run()
    opCount,              \* number of public operations other than run()
    engineRequest         \* the run() whose request the engine holds, 0 if none

phpVars == <<runtime, nextRuntime, webSapiInitialized, sapiName, engineSapiName,
             listeners, messageListeners, messages,
             files, heap, semRunning, semQueue, runs, events, stubs, crashed,
             lastOp, opCount, engineRequest>>

vars == <<poolVars, phpVars>>

\* ------------------------------------------------------------------------
\* Process pool manager
\* ------------------------------------------------------------------------

\* The pool state a spawn reads and writes, as one value, so that the two
\* spawns one acquirePHPInstance() may start are applied one after the other.
PoolState ==
    [running |-> poolRunning, queue |-> poolQueue, spawns |-> spawns,
     all |-> allInstances, factoryCalls |-> factoryCalls]

\* A semaphore that admits one caller too many.
SemaphoreHasSlotOffByOne(running, concurrency) == running <= concurrency

\* Semaphore: a slot is free.
SemaphoreHasSlot(running, concurrency) == running < concurrency

\* Semaphore.remaining
Remaining(running, concurrency) == concurrency - running

\* A spawn() that never refuses a primary.
RefusesPrimarySpawnNever(all) == FALSE

\* spawn(): the admission of a second primary is refused while any spawn of
\* the pool is under way or alive.
RefusesPrimarySpawn(all) == all # {}

\* spawn({isPrimary}): starts a spawn. It takes a semaphore slot and invokes
\* the factory when a slot is free, and queues for a slot otherwise.
Spawn(p, isPrimary) ==
    LET id == Len(p.spawns) + 1
        granted == SemaphoreHasSlot(p.running, maxPhpInstances)
    IN  [running |-> IF granted THEN p.running + 1 ELSE p.running,
         queue |-> IF granted THEN p.queue ELSE Append(p.queue, id),
         spawns |-> Append(p.spawns,
                      [isPrimary |-> isPrimary,
                       st |-> IF granted THEN "creating" ELSE "waiting"]),
         all |-> p.all \cup {id},
         factoryCalls |-> IF granted THEN p.factoryCalls + 1 ELSE p.factoryCalls]

\* The spawn acquirePHPInstance() hands out when the primary is busy: the one
\* started ahead of demand when there is one, a new one otherwise.
TakeSpawn(p, next) ==
    IF next # 0 THEN [pool |-> p, id |-> next]
    ELSE [pool |-> Spawn(p, FALSE), id |-> Len(p.spawns) + 1]

\* An acquire that, with no slot left, forgets to clear the spawn it has just
\* handed out, which stays in place as the next one.
PrespawnStale(p) ==
    IF Remaining(p.running, maxPhpInstances) > 0
    THEN [pool |-> Spawn(p, FALSE), id |-> Len(p.spawns) + 1]
    ELSE [pool |-> p, id |-> nextInstance]

\* An acquire that never starts a spawn ahead of demand.
PrespawnNever(p) == [pool |-> p, id |-> 0]

\* After handing a spawn out, the next one is started ahead of demand while
\* the semaphore has a slot left.
Prespawn(p) ==
    IF Remaining(p.running, maxPhpInstances) > 0
    THEN [pool |-> Spawn(p, FALSE), id |-> Len(p.spawns) + 1]
    ELSE [pool |-> p, id |-> 0]

SetPool(p) ==
    /\ poolRunning' = p.running
    /\ poolQueue' = p.queue
    /\ spawns' = p.spawns
    /\ allInstances' = p.all
    /\ factoryCalls' = p.factoryCalls

NewCall(kind, spawn, st, php) ==
    [kind |-> kind, spawn |-> spawn, st |-> st, php |-> php, reaped |-> FALSE]

\* The part of getPrimaryPhp() shared by both entry points: the call record of
\* a caller of the given kind, and the pool after it.
PrimaryCall(kind) ==
    IF primaryPhp # 0
    THEN [pool |-> PoolState, call |-> NewCall(kind, 0, "ok", primaryPhp)]
    ELSE IF RefusesPrimarySpawn(allInstances)
    THEN [pool |-> PoolState, call |-> NewCall(kind, 0, "errPrimary", 0)]
    ELSE [pool |-> Spawn(PoolState, TRUE),
          call |-> NewCall(kind, Len(spawns) + 1, "pending", 0)]

\* getPrimaryPhp()
GetPrimaryPhp ==
    /\ Len(calls) < MaxCalls
    /\ LET r == PrimaryCall("getPrimary")
       IN  /\ SetPool(r.pool)
           /\ calls' = Append(calls, r.call)
    /\ hist' = Append(hist, <<"getPrimary", Len(calls) + 1>>)
    /\ UNCHANGED <<maxPhpInstances, primaryPhp, primaryIdle, nextInstance>>

\* acquirePHPInstance() while the primary is idle: the caller takes the primary.
AcquirePrimary ==
    /\ Len(calls) < MaxCalls
    /\ primaryIdle
    /\ primaryIdle' = FALSE
    /\ LET r == PrimaryCall("acquirePrimary")
       IN  /\ SetPool(r.pool)
           /\ calls' = Append(calls, r.call)
    /\ hist' = Append(hist, <<"acquire", Len(calls) + 1>>)
    /\ UNCHANGED <<maxPhpInstances, primaryPhp, nextInstance>>

\* acquirePHPInstance() while the primary is busy: the caller takes a
\* secondary instance, and the next one is started ahead of demand.
AcquireSecondary ==
    /\ Len(calls) < MaxCalls
    /\ ~primaryIdle
    /\ LET t == TakeSpawn(PoolState, nextInstance)
           n == Prespawn(t.pool)
           ready == t.pool.spawns[t.id].st = "ready"
       IN  /\ SetPool(n.pool)
           /\ nextInstance' = n.id
           /\ calls' = Append(calls,
                   NewCall("acquire", t.id,
                           IF ready THEN "ok" ELSE "pending",
                           IF ready THEN t.id ELSE 0))
    /\ hist' = Append(hist, <<"acquire", Len(calls) + 1>>)
    /\ UNCHANGED <<maxPhpInstances, primaryPhp, primaryIdle>>

\* Calls waiting for spawn s are settled with the given outcome.
Settle(cs, s, st, php) ==
    [c \in DOMAIN cs |->
        IF cs[c].spawn = s /\ cs[c].st = "pending"
        THEN [cs[c] EXCEPT !.st = st, !.php = php]
        ELSE cs[c]]

\* The factory's promise resolves: the instance exists. The instance a spawn
\* creates is identified with the spawn.
FactoryDone(s) ==
    /\ s \in DOMAIN spawns
    /\ spawns[s].st = "creating"
    /\ spawns' = [spawns EXCEPT ![s].st = "ready"]
    /\ primaryPhp' = IF spawns[s].isPrimary THEN s ELSE primaryPhp
    /\ calls' = Settle(calls, s, "ok", s)
    /\ UNCHANGED <<maxPhpInstances, primaryIdle, nextInstance, allInstances,
                   poolRunning, poolQueue, factoryCalls, hist>>

\* The acquisition timeout of a spawn waiting for a slot elapses.
AcquireTimeout(s) ==
    /\ s \in DOMAIN spawns
    /\ spawns[s].st = "waiting"
    /\ spawns' = [spawns EXCEPT ![s].st = "timedout"]
    /\ poolQueue' = SelectSeq(poolQueue, LAMBDA x : x # s)
    /\ allInstances' = allInstances \ {s}
    /\ calls' = Settle(calls, s, "errMax", 0)
    /\ UNCHANGED <<maxPhpInstances, primaryPhp, primaryIdle, nextInstance,
                   poolRunning, factoryCalls, hist>>

\* A release that keeps the slot taken when nobody waits.
ReleaseLeak(p) ==
    IF p.queue = <<>>
    THEN p
    ELSE [p EXCEPT !.queue = Tail(p.queue),
                   !.spawns[Head(p.queue)].st = "creating",
                   !.factoryCalls = p.factoryCalls + 1]

\* A release that frees the slot without waking the longest-waiting spawn.
ReleaseNoHandOff(p) == [p EXCEPT !.running = p.running - 1]

\* Semaphore release: the slot goes to the longest-waiting spawn, whose
\* factory is then invoked; with nobody waiting the slot becomes free.
Release(p) ==
    IF p.queue = <<>>
    THEN [p EXCEPT !.running = p.running - 1]
    ELSE [p EXCEPT !.queue = Tail(p.queue),
                   !.spawns[Head(p.queue)].st = "creating",
                   !.factoryCalls = p.factoryCalls + 1]

\* reap() of the handle a caller got for the primary: the primary is idle again.
ReapPrimary(c) ==
    /\ c \in DOMAIN calls
    /\ calls[c].kind = "acquirePrimary"
    /\ calls[c].st = "ok"
    /\ ~calls[c].reaped
    /\ primaryIdle' = TRUE
    /\ calls' = [calls EXCEPT ![c].reaped = TRUE]
    /\ hist' = Append(hist, <<"reap", c>>)
    /\ UNCHANGED <<maxPhpInstances, primaryPhp, nextInstance, allInstances,
                   poolRunning, poolQueue, spawns, factoryCalls>>

\* reap() of the handle of a secondary instance: the instance is destroyed and
\* its semaphore slot released.
ReapSecondary(c) ==
    /\ c \in DOMAIN calls
    /\ calls[c].kind = "acquire"
    /\ calls[c].st = "ok"
    /\ ~calls[c].reaped
    /\ LET s == calls[c].spawn
           p == [PoolState EXCEPT !.all = allInstances \ {s},
                                  !.spawns[s].st = "reaped"]
       IN  SetPool(Release(p))
    /\ calls' = [calls EXCEPT ![c].reaped = TRUE]
    /\ hist' = Append(hist, <<"reap", c>>)
    /\ UNCHANGED <<maxPhpInstances, primaryPhp, primaryIdle, nextInstance>>

\* A constructor that creates the primary eagerly.
InitPoolEager ==
    /\ maxPhpInstances \in 1..MaxCap
    /\ primaryPhp = 0
    /\ primaryIdle = TRUE
    /\ nextInstance = 0
    /\ allInstances = {1}
    /\ poolRunning = 1
    /\ poolQueue = <<>>
    /\ spawns = <<[isPrimary |-> TRUE, st |-> "creating"]>>
    /\ calls = <<>>
    /\ factoryCalls = 1
    /\ hist = <<>>

\* new PHPProcessManager(options)
InitPool ==
    /\ maxPhpInstances \in 1..MaxCap
    /\ primaryPhp = 0
    /\ primaryIdle = TRUE
    /\ nextInstance = 0
    /\ allInstances = {}
    /\ poolRunning = 0
    /\ poolQueue = <<>>
    /\ spawns = <<>>
    /\ calls = <<>>
    /\ factoryCalls = 0
    /\ hist = <<>>

\* ------------------------------------------------------------------------
\* PHP instance (class PHP)
\* ------------------------------------------------------------------------

ScriptPath == "/index.php"

EvalPath == "/internal/eval.php"

PHP_INI_PATH == "/internal/shared/php.ini"

AUTO_PREPEND_SCRIPT == "/internal/shared/auto_prepend_file.php"

\* The directories and files of the model's filesystems.
DirPaths == {"/", "/internal", "/internal/shared", "/www", "/www/lib"}

FilePaths ==
    {ScriptPath, EvalPath, PHP_INI_PATH, AUTO_PREPEND_SCRIPT, "/www/lib/a.php"}

Parent(p) ==
    CASE p \in {"/internal", "/www", ScriptPath} -> "/"
      [] p \in {"/internal/shared", EvalPath} -> "/internal"
      [] p \in {PHP_INI_PATH, AUTO_PREPEND_SCRIPT} -> "/internal/shared"
      [] p = "/www/lib" -> "/www"
      [] p = "/www/lib/a.php" -> "/www/lib"
      [] OTHER -> "/"

\* A filesystem is a function from the paths that exist to their nodes. The
\* nodes of the in-memory filesystem (MEMFS) have a `contents` property, the
\* nodes of a filesystem mounted from the host do not.
DirNode == [kind |-> "dir", data |-> "", contents |-> TRUE]

FileNode(data) == [kind |-> "file", data |-> data, contents |-> TRUE]

MountedDirNode == [kind |-> "dir", data |-> "", contents |-> FALSE]

MountedFileNode(data) == [kind |-> "file", data |-> data, contents |-> FALSE]

\* The instance owns no runtime, hence no filesystem.
NoFS == <<>>

\* The filesystem of a runtime as loaded.
LoadedFS == [p \in {"/", "/internal", "/internal/shared"} |-> DirNode]

\* FS.analyzePath(path).exists
FileExists(fs, p) == p \in DOMAIN fs

IsDir(fs, p) == p \in DOMAIN fs /\ fs[p].kind = "dir"

\* FS.writeFile(path, data) succeeds when the parent directory exists and the
\* path is not a directory.
CanWrite(fs, p) == IsDir(fs, Parent(p)) /\ ~IsDir(fs, p)

\* The filesystem that backs path p: the one of the node at p, or of the
\* nearest directory above it when the path does not exist yet.
RECURSIVE InMemory(_, _)
InMemory(fs, p) ==
    IF p \in DOMAIN fs THEN fs[p].contents
    ELSE IF p = "/" THEN TRUE
    ELSE InMemory(fs, Parent(p))

\* A write that leaves an existing file as it is.
FsWriteIfAbsent(fs, p, data) ==
    [q \in DOMAIN fs \cup {p} |->
        IF q = p /\ q \notin DOMAIN fs THEN FileNode(data) ELSE fs[q]]

\* FS.writeFile(path, data): the file is created or its contents replaced,
\* in the filesystem that backs the path.
FsWrite(fs, p, data) ==
    [q \in DOMAIN fs \cup {p} |->
        IF q # p THEN fs[q]
        ELSE IF InMemory(fs, p) THEN FileNode(data) ELSE MountedFileNode(data)]

FsRemove(fs, p) == [q \in DOMAIN fs \ {p} |-> fs[q]]

\* An initializeRuntime that writes both files whatever the filesystem has.
WithBaselineAlways(fs) ==
    FsWrite(FsWrite(fs, PHP_INI_PATH, "baseline"),
            AUTO_PREPEND_SCRIPT, "baseline")

\* initializeRuntime: php.ini and the auto-prepend script, each written when
\* the runtime's filesystem has no file at its path.
WithBaseline(fs) ==
    LET ini == IF FileExists(fs, PHP_INI_PATH) THEN fs
               ELSE FsWrite(fs, PHP_INI_PATH, "baseline")
    IN  IF FileExists(ini, AUTO_PREPEND_SCRIPT) THEN ini
        ELSE FsWrite(ini, AUTO_PREPEND_SCRIPT, "baseline")

\* A path and the directories above it.
RECURSIVE AncestorsOrSelf(_)
AncestorsOrSelf(p) ==
    IF p = "/" THEN {"/"} ELSE {p} \cup AncestorsOrSelf(Parent(p))

\* Path p is dir or lies below it.
Under(dir, p) == dir \in AncestorsOrSelf(p)

\* FS.readdir(path) without '.' and '..', joined to the path.
Children(fs, path) == {q \in DOMAIN fs : q # path /\ Parent(q) = path}

\* FS.mkdirTree(path) succeeds unless a component of the path is a file.
CanMkdirTree(fs, path) ==
    \A q \in AncestorsOrSelf(path) : FileExists(fs, q) => IsDir(fs, q)

\* FS.mkdirTree(path): the directory and every missing directory above it.
MkdirTree(fs, path) ==
    [q \in DOMAIN fs \cup AncestorsOrSelf(path) |->
        IF q \in DOMAIN fs THEN fs[q]
        ELSE IF InMemory(fs, q) THEN DirNode ELSE MountedDirNode]

\* The result of a copy: the target after it, whether it returned (ok) or
\* threw, the paths it wrote to the target, in the order of the writes, and
\* the paths it returned from because their node has no `contents`.
Copied(fs, ok, visited, skipped) ==
    [fs |-> fs, ok |-> ok, visited |-> visited, skipped |-> skipped]

\* A copy that leaves alone every path the target already has.
CopyFileKeeping(source, target, path) ==
    IF FileExists(target.fs, path) THEN target
    ELSE IF ~CanWrite(target.fs, path)
    THEN Copied(target.fs, FALSE, target.visited, target.skipped)
    ELSE Copied(FsWrite(target.fs, path, source[path].data), TRUE,
                Append(target.visited, path), target.skipped)

\* copyFS on a file: target.writeFile(path, source.readFile(path)). The
\* lookup of the path in the target is commented out, so a file the target
\* already has is written over.
CopyFile(source, target, path) ==
    IF ~CanWrite(target.fs, path)
    THEN Copied(target.fs, FALSE, target.visited, target.skipped)
    ELSE Copied(FsWrite(target.fs, path, source[path].data), TRUE,
                Append(target.visited, path), target.skipped)

\* A copy that takes every node for a node of the in-memory filesystem.
HasContentsAlways(node) == TRUE

\* `'contents' in oldNode.node`
HasContents(node) == node.contents

\* copyFS(source, target, path), target being the copy so far. A path the
\* source lacks and a node without `contents` are skipped; a file is written
\* to the target; a directory is made with mkdirTree and its entries are
\* copied in turn, up to the first that throws.
RECURSIVE CopyNode(_, _, _)
RECURSIVE CopyEntries(_, _, _)
CopyEntries(source, acc, entries) ==
    IF entries = {} \/ ~acc.ok THEN acc
    ELSE LET q == CHOOSE e \in entries : TRUE
         IN  CopyEntries(source, CopyNode(source, acc, q), entries \ {q})

CopyNode(source, target, path) ==
    IF ~FileExists(source, path) THEN target
    ELSE IF ~HasContents(source[path])
    THEN Copied(target.fs, TRUE, target.visited, target.skipped \cup {path})
    ELSE IF ~IsDir(source, path) THEN CopyFile(source, target, path)
    ELSE IF ~CanMkdirTree(target.fs, path)
    THEN Copied(target.fs, FALSE, target.visited, target.skipped)
    ELSE CopyEntries(source,
                     Copied(MkdirTree(target.fs, path), TRUE,
                            Append(target.visited, path), target.skipped),
                     Children(source, path))

\* copyFS(source, target, path) as hotSwapPHPRuntime calls it.
CopyFS(source, target, path) ==
    CopyNode(source, Copied(target, TRUE, <<>>, {}), path)

\* The listeners' event types the model registers listeners for.
ListenTypes == {"request.error", "request.end", "runtime.beforedestroy"}

EventTypes == ListenTypes \cup {"runtime.initialized"}

\* A listener either returns or throws.
ListenerKinds == {"quiet", "throws"}

\* A Host header as the URL parser reads it: an optional scheme followed by
\* '://', a host name, an optional ':' and port. NoHost: no Host header.
NoHost == [scheme |-> "", name |-> "", port |-> ""]

Hosts ==
    {NoHost} \cup [scheme : {"", "http", "https"},
                   name : {"example.com", "127.0.0.1"},
                   port : {"", "80", "443", "8080"}]

\* The requests of every shape as to code, script path and body: also those
\* that name a script and carry code, and those that do neither. They have
\* no Host header, protocol or $_SERVER entries.
AllRequests ==
    [scriptPath : {"", ScriptPath}, code : BOOLEAN, body : BOOLEAN,
     host : {NoHost}, protocol : {""}, https : {""}]

\* PHPRunOptions, as far as run() branches on it: the script path, whether
\* code is a string, whether a body is given. The requests issued name a
\* script or carry code.
Requests ==
    {r \in AllRequests : r.code = (r.scriptPath = "")}

\* The requests issued when run() calls interleave with every other
\* operation: inline code with a body, or a script without one.
MixedRequests == {r \in Requests : r.body = r.code}

\* run(): `headers['host'] || 'example.com:443'`
DefaultHost == [scheme |-> "", name |-> "example.com", port |-> "443"]

HostOf(req) == IF req.host = NoHost THEN DefaultHost ELSE req.host

\* run(): `request.protocol || 'http'`
ProtocolOf(req) == IF req.protocol = "" THEN "http" ELSE req.protocol

\* The host names that begin with a letter.
LetterNames == {"example.com"}

\* `new URL(host)` returns rather than throws. With '://' the string is an
\* absolute URL. Without it, a name that begins with a letter and is followed
\* by ':' is read as the URL's scheme and what follows as its path; any
\* other string is a relative reference, which has no base to resolve against.
UrlParses(host) ==
    \/ host.scheme # ""
    \/ host.name \in LetterNames /\ host.port # ""

\* The port the URL parser drops because it is the scheme's default.
DefaultPort(scheme) ==
    IF scheme = "http" THEN "80" ELSE IF scheme = "https" THEN "443" ELSE ""

\* `new URL(host).port`: empty for a URL whose authority was not parsed and
\* for the default port of the scheme.
UrlPort(host) ==
    IF host.scheme = "" THEN ""
    ELSE IF host.port = DefaultPort(host.scheme) THEN ""
    ELSE host.port

\* The value that stands for NaN and for undefined, both of which `!port`
\* treats alike.
NaN == -1

\* parseInt(string, 10)
ParseInt(str) ==
    CASE str = "80" -> 80
      [] str = "443" -> 443
      [] str = "8080" -> 8080
      [] OTHER -> NaN

\* #inferPortFromHostAndProtocol(host, protocol)
InferPort(host, protocol) ==
    LET port == IF UrlParses(host) THEN ParseInt(UrlPort(host)) ELSE NaN
    IN  IF port = NaN \/ port = 0 \/ port = 80
        THEN IF protocol = "https" THEN 443 ELSE 80
        ELSE port

\* #prepareServerEntries: `$_SERVER['HTTPS'] || port === 443 ? 'on' : 'off'`,
\* in which the conditional applies to the whole disjunction; an entry that
\* is a non-empty string is truthy.
ServerHttps(supplied, port) ==
    IF supplied # "" \/ port = 443 THEN "on" ELSE "off"

\* The statuses a program writes to the headers file.
HttpStatusCodes == {200, 404, 500}

NoPtr == <<0, 0>>

\* Where a call into a faulted engine faults again during request setup.
SetterTraps == {"none", "setter", "body"}

\* A semaphore of two slots.
SemaphoreConcurrencyTwo == 1 + 1

\* constructor: new Semaphore({ concurrency: 1 })
SemaphoreConcurrency == 1

\* The methods of class PHP the model invokes. They are defined with class
\* method syntax, hence properties of PHP.prototype that are not enumerable.
PrototypeMethods ==
    {"run", "addEventListener", "dispatchEvent", "initializeRuntime",
     "setSapiName", "exit", "writeFile", "unlink", "fileExists", "onMessage",
     "mount"}

\* The instance's own enumerable string-keyed properties: its public fields.
\* (#private fields and the symbol-keyed runtime handle are not enumerated.)
OwnEnumerableProperties == {"semaphore", "requestHandler"}

\* `for (const name in this)`: the enumerable string-keyed properties, own and
\* inherited. The inherited ones are the class's methods, which are not
\* enumerable, so the loop visits the own fields only.
ForInNames == OwnEnumerableProperties

\* `typeof this[name] === 'function'`
IsFunctionValued(name) == name \in PrototypeMethods

\* #handleRequest's catch block: the properties rebound to the throwing stub.
CrashStubs == {name \in ForInNames : IsFunctionValued(name)}

Event(type, run, source) ==
    [type |-> type, run |-> run, source |-> source, error |-> "none"]

\* The request.error event of run() call c: the error caught and its source.
ErrorEvent(c, err, src) ==
    [type |-> "request.error", run |-> c, source |-> src, error |-> err]

\* dispatchEvent(event), invoked as this.dispatchEvent while st is the set of
\* rebound methods: the event log after it and how the call ended. The
\* listeners run in order and the first one that throws ends the dispatch.
\* A dispatch that goes on after a listener threw.
InvokedAll(ls) == ls

\* `for (const listener of listeners) { listener(event); }`: the listeners
\* called, in the order of the Set, up to the first that throws.
Invoked(ls) ==
    LET throwing == {i \in DOMAIN ls : ls[i] = "throws"}
    IN  IF throwing = {} THEN ls
        ELSE SubSeq(ls, 1, CHOOSE i \in throwing : \A j \in throwing : i <= j)

Dispatch(st, evs, ev) ==
    IF "dispatchEvent" \in st
    THEN [events |-> evs, threw |-> "crashed"]
    ELSE [events |-> Append(evs, ev),
          threw |-> IF \E i \in DOMAIN listeners[ev.type] :
                          listeners[ev.type][i] = "throws"
                    THEN "listener" ELSE "none"]

\* The error in flight after a dispatch that ended as said.
ErrorAfter(err, threw) ==
    IF threw = "crashed" THEN "crashedError"
    ELSE IF threw = "listener" THEN "listenerError"
    ELSE err

NoResponse == [status |-> 0, exitCode |-> 0]

\* A response that carries the status the program wrote, whatever the exit
\* code.
ResponseStatusAsWritten(exitCode, httpStatusCode) == httpStatusCode

\* #handleRequest: new PHPResponse(exitCode === 0 ? httpStatusCode : 500, ...)
ResponseStatus(exitCode, httpStatusCode) ==
    IF exitCode = 0 THEN httpStatusCode ELSE 500

\* A catch block that reports every error as the engine's.
ErrorSourceAlways(err) == "php-wasm"

\* run()'s catch block: `source: e.source ?? 'php-wasm'`. Of the errors run()
\* catches only the PHPExecutionFailureError has a source, 'request'.
ErrorSource(err) == IF err = "execFailure" THEN "request" ELSE "php-wasm"

\* The body buffer of record rec belongs to a runtime other than the one
\* attached now.
ForeignPtr(rec) ==
    rec.ptr # NoPtr /\ runtime # 0 /\ rec.ptr[1] # runtime

\* A run() whose release frees the slot without waking the run() that waits
\* for it.
RunTailNoHandOff(c, rec, err, src, st, hp, trap) ==
    LET d1 == IF err = "none" THEN [events |-> events, threw |-> "none"]
              ELSE Dispatch(st, events, ErrorEvent(c, err, src))
        e1 == ErrorAfter(err, d1.threw)
        freeThrows == rec.ptr # NoPtr /\ (runtime = 0 \/ (ForeignPtr(rec) /\ trap))
        freed == rec.ptr # NoPtr /\ runtime # 0 /\ ~ForeignPtr(rec)
        e2 == IF freeThrows THEN "freeError" ELSE e1
        d2 == Dispatch(st, d1.events, Event("request.end", c, "none"))
        e3 == ErrorAfter(e2, d2.threw)
    IN  /\ events' = d2.events
        /\ heap' = IF freed THEN hp \ {rec.ptr} ELSE hp
        /\ semRunning' = semRunning - 1
        /\ semQueue' = semQueue
        /\ runs' = [runs EXCEPT ![c] =
                      [rec EXCEPT
                         !.pc = "done", !.thrown = err,
                         !.outcome = IF e3 = "none" THEN "response" ELSE e3,
                         !.frees = IF freed THEN @ + 1 ELSE @,
                         !.releases = @ + 1]]

\* A run() without a finally block: a request.error listener that throws in
\* the catch block ends the call before the buffer is freed, the semaphore
\* released and request.end dispatched.
RunTailNoFinally(c, rec, err, src, st, hp, trap) ==
    LET d1 == IF err = "none" THEN [events |-> events, threw |-> "none"]
              ELSE Dispatch(st, events, ErrorEvent(c, err, src))
        e1 == ErrorAfter(err, d1.threw)
        left == d1.threw # "none"
        freed == ~left /\ rec.ptr # NoPtr /\ runtime # 0 /\ ~ForeignPtr(rec)
        d2 == Dispatch(st, d1.events, Event("request.end", c, "none"))
        e3 == ErrorAfter(e1, d2.threw)
        woken == IF semQueue = <<>> \/ left THEN 0 ELSE Head(semQueue)
    IN  /\ events' = IF left THEN d1.events ELSE d2.events
        /\ heap' = IF freed THEN hp \ {rec.ptr} ELSE hp
        /\ semRunning' = IF woken = 0 /\ ~left THEN semRunning - 1
                         ELSE semRunning
        /\ semQueue' = IF woken = 0 THEN semQueue ELSE Tail(semQueue)
        /\ runs' = [k \in DOMAIN runs |->
                      IF k = c
                      THEN [rec EXCEPT
                              !.pc = "done", !.thrown = err,
                              !.outcome = IF left THEN e1
                                          ELSE IF e3 = "none" THEN "response"
                                          ELSE e3,
                              !.frees = IF freed THEN @ + 1 ELSE @,
                              !.releases = IF left THEN @ ELSE @ + 1]
                      ELSE IF k = woken
                      THEN [runs[k] EXCEPT !.pc = "acquired", !.acquired = TRUE]
                      ELSE runs[k]]

\* A run() that dispatches request.end, frees and releases first and reports
\* the error of its try block last.
RunTailEndFirst(c, rec, err, src, st, hp, trap) ==
    LET d2 == Dispatch(st, events, Event("request.end", c, "none"))
        d1 == IF err = "none" THEN [events |-> d2.events, threw |-> "none"]
              ELSE Dispatch(st, d2.events, ErrorEvent(c, err, src))
        freed == rec.ptr # NoPtr /\ runtime # 0 /\ ~ForeignPtr(rec)
        e3 == ErrorAfter(ErrorAfter(err, d2.threw), d1.threw)
        woken == IF semQueue = <<>> THEN 0 ELSE Head(semQueue)
    IN  /\ events' = d1.events
        /\ heap' = IF freed THEN hp \ {rec.ptr} ELSE hp
        /\ semRunning' = IF woken = 0 THEN semRunning - 1 ELSE semRunning
        /\ semQueue' = IF woken = 0 THEN semQueue ELSE Tail(semQueue)
        /\ runs' = [k \in DOMAIN runs |->
                      IF k = c
                      THEN [rec EXCEPT
                              !.pc = "done", !.thrown = err,
                              !.outcome = IF e3 = "none" THEN "response" ELSE e3,
                              !.frees = IF freed THEN @ + 1 ELSE @,
                              !.releases = @ + 1]
                      ELSE IF k = woken
                      THEN [runs[k] EXCEPT !.pc = "acquired", !.acquired = TRUE]
                      ELSE runs[k]]

\* A run() whose body buffer is freed outside a nested try/finally: a failing
\* free skips the release and the request.end event.
RunTailFlat(c, rec, err, src, st, hp, trap) ==
    LET d1 == IF err = "none" THEN [events |-> events, threw |-> "none"]
              ELSE Dispatch(st, events, ErrorEvent(c, err, src))
        e1 == ErrorAfter(err, d1.threw)
        freeThrows == rec.ptr # NoPtr /\ (runtime = 0 \/ (ForeignPtr(rec) /\ trap))
        freed == rec.ptr # NoPtr /\ runtime # 0 /\ ~ForeignPtr(rec)
        d2 == Dispatch(st, d1.events, Event("request.end", c, "none"))
        woken == IF semQueue = <<>> \/ freeThrows THEN 0 ELSE Head(semQueue)
    IN  /\ events' = IF freeThrows THEN d1.events ELSE d2.events
        /\ heap' = IF freed THEN hp \ {rec.ptr} ELSE hp
        /\ semRunning' = IF woken = 0 /\ ~freeThrows THEN semRunning - 1 ELSE semRunning
        /\ semQueue' = IF woken = 0 THEN semQueue ELSE Tail(semQueue)
        /\ runs' = [k \in DOMAIN runs |->
                      IF k = c
                      THEN [rec EXCEPT
                              !.pc = "done", !.thrown = err,
                              !.outcome = IF freeThrows THEN "freeError"
                                          ELSE IF ErrorAfter(e1, d2.threw) = "none"
                                          THEN "response"
                                          ELSE ErrorAfter(e1, d2.threw),
                              !.frees = IF freed THEN @ + 1 ELSE @,
                              !.releases = IF freeThrows THEN @ ELSE @ + 1]
                      ELSE IF k = woken
                      THEN [runs[k] EXCEPT !.pc = "acquired", !.acquired = TRUE]
                      ELSE runs[k]]

\* run(): the catch and finally blocks of call c, whose record so far is rec,
\* entered with the error err thrown in the try block ("none" when the
\* response is returned). The request.error event is dispatched for an error;
\* the body buffer is freed; the semaphore is released, which admits the
\* longest-waiting run(); the request.end event is dispatched.
\* free() throws on an instance without a runtime. On a runtime other than the
\* one the buffer was allocated in, free() is handed an address that runtime
\* never allocated: it frees nothing of the buffer and either returns or
\* faults (trap).
RunTail(c, rec, err, src, st, hp, trap) ==
    LET d1 == IF err = "none" THEN [events |-> events, threw |-> "none"]
              ELSE Dispatch(st, events, ErrorEvent(c, err, src))
        e1 == ErrorAfter(err, d1.threw)
        freeThrows == rec.ptr # NoPtr /\ (runtime = 0 \/ (ForeignPtr(rec) /\ trap))
        freed == rec.ptr # NoPtr /\ runtime # 0 /\ ~ForeignPtr(rec)
        e2 == IF freeThrows THEN "freeError" ELSE e1
        d2 == Dispatch(st, d1.events, Event("request.end", c, "none"))
        e3 == ErrorAfter(e2, d2.threw)
        woken == IF semQueue = <<>> THEN 0 ELSE Head(semQueue)
    IN  /\ events' = d2.events
        /\ heap' = IF freed THEN hp \ {rec.ptr} ELSE hp
        /\ semRunning' = IF woken = 0 THEN semRunning - 1 ELSE semRunning
        /\ semQueue' = IF woken = 0 THEN semQueue ELSE Tail(semQueue)
        /\ runs' = [k \in DOMAIN runs |->
                      IF k = c
                      THEN [rec EXCEPT
                              !.pc = "done", !.thrown = err,
                              !.outcome = IF e3 = "none" THEN "response" ELSE e3,
                              !.frees = IF freed THEN @ + 1 ELSE @,
                              !.releases = @ + 1]
                      ELSE IF k = woken
                      THEN [runs[k] EXCEPT !.pc = "acquired", !.acquired = TRUE]
                      ELSE runs[k]]

\* A semaphore that serves the caller that came last.
EnqueueFirst(queue, c) == <<c>> \o queue

\* Semaphore.acquire with no free slot: the caller joins the end of the queue.
Enqueue(queue, c) == Append(queue, c)

NewRun(req, pc, outcome) ==
    [req |-> req, pc |-> pc, acquired |-> (pc = "acquired"), ptr |-> NoPtr,
     queuedAt |-> IF pc = "waiting" THEN Len(semQueue) + 1 ELSE 0,
     thrown |-> outcome, outcome |-> outcome, response |-> NoResponse,
     httpStatusCode |-> 0, releases |-> 0, allocs |-> 0, frees |-> 0,
     engineCalls |-> 0, port |-> 0, https |-> "", startRuntime |-> 0,
     sapiInit |-> 0,
     afterCrash |-> crashed]

\* run(request) is invoked: `await this.semaphore.acquire()`. The caller takes
\* the slot when it is free and queues otherwise.
RunCall(req) ==
    /\ IF "run" \in stubs
       THEN /\ runs' = Append(runs, NewRun(req, "done", "crashedError"))
            /\ UNCHANGED <<semRunning, semQueue>>
       ELSE IF SemaphoreHasSlot(semRunning, SemaphoreConcurrency)
       THEN /\ runs' = Append(runs, NewRun(req, "acquired", "none"))
            /\ semRunning' = semRunning + 1
            /\ UNCHANGED semQueue
       ELSE /\ runs' = Append(runs, NewRun(req, "waiting", "none"))
            /\ semQueue' = Enqueue(semQueue, Len(runs) + 1)
            /\ UNCHANGED semRunning
    /\ UNCHANGED <<runtime, nextRuntime, webSapiInitialized, sapiName, engineSapiName,
                   
                   listeners, messageListeners, messages,
                   files, heap, events, stubs, crashed, lastOp,
                   opCount, engineRequest>>

\* A run() that does not check the script path.
ScriptMissingNever(req, fs) == FALSE

\* run(): `request.scriptPath && !this.fileExists(request.scriptPath)`
ScriptMissing(req, fs) ==
    req.scriptPath # "" /\ ~FileExists(fs, req.scriptPath)

\* A run() that writes the request into the engine before it checks the
\* script path.
RequestStateAfterUnchecked(c, early) ==
    IF early \in {"none", "engineError", "missingScript"} THEN c
    ELSE engineRequest

\* The request state of the engine (URI, method, host, port, headers, body,
\* script path, $_SERVER and environment entries) after the try block of call
\* c got as far as early says: the setters run only past the script path
\* check.
RequestStateAfter(c, early) ==
    IF early \in {"none", "engineError"} THEN c ELSE engineRequest

\* A run() that awaits between the request setters and the call into the
\* engine: the step ends with the request written and the call not made.
RunStartYields(c, trap) ==
    /\ c \in DOMAIN runs
    /\ runs[c].pc = "acquired"
    /\ trap = "none"
    /\ runs' = [runs EXCEPT ![c].pc = "normalized"]
    /\ engineRequest' = c
    /\ webSapiInitialized' = TRUE
    /\ UNCHANGED <<runtime, nextRuntime, sapiName, engineSapiName,
                   listeners, messageListeners, messages, files, heap,
                   semRunning, semQueue, events, stubs, crashed, lastOp,
                   opCount>>

\* run(), from the semaphore's grant to the call into the engine: the one-time
\* SAPI setup, the script path check, the request setters, the body buffer,
\* the inline code, and the engine call, at which run() suspends. An error on
\* the way takes the catch and finally blocks in the same step.
\* trap: a call into an engine that has faulted before may fault again, in a
\* request setter ("setter") or, in #setRequestBody, in wasm_set_request_body
\* after the buffer was allocated ("body"); the buffer's address is then lost.
RunStart(c, trap) ==
    /\ c \in DOMAIN runs
    /\ runs[c].pc = "acquired"
    /\ trap # "none" => crashed
    /\ trap = "body" => runs[c].req.body
    /\ LET req == runs[c].req
           initThrows == ~webSapiInitialized /\ runtime = 0
           early == IF initThrows THEN "typeError"
                    ELSE IF req.scriptPath # "" /\ "fileExists" \in stubs
                    THEN "crashedError"
                    ELSE IF runtime = 0 THEN "typeError"
                    ELSE IF ScriptMissing(req, files)
                    THEN "missingScript"
                    ELSE IF trap = "setter" THEN "engineError"
                    ELSE "none"
           allocated == early = "none" /\ req.body
           ptr == IF allocated /\ trap # "body" THEN <<runtime, c>> ELSE NoPtr
           err == IF early # "none" THEN early
                  ELSE IF trap = "body" THEN "engineError"
                  ELSE IF req.code /\ "writeFile" \in stubs THEN "crashedError"
                  ELSE IF req.code /\ ~CanWrite(files, EvalPath) THEN "fsError"
                  ELSE "none"
           hp == IF allocated THEN heap \cup {<<runtime, c>>} ELSE heap
           port == InferPort(HostOf(req), ProtocolOf(req))
           rec == [runs[c] EXCEPT
                     !.ptr = ptr,
                     !.allocs = IF allocated THEN @ + 1 ELSE @,
                     !.startRuntime = runtime,
                     !.sapiInit = IF ~webSapiInitialized /\ ~initThrows
                                  THEN runtime ELSE @,
                     !.port = IF early = "none" THEN port ELSE @,
                     !.https = IF err = "none"
                               THEN ServerHttps(req.https, port) ELSE @]
       IN  /\ webSapiInitialized' = (webSapiInitialized \/ ~initThrows)
           /\ engineRequest' = RequestStateAfter(c, early)
           /\ files' = IF err = "none" /\ req.code
                       THEN FsWrite(files, EvalPath, "code") ELSE files
           /\ IF err = "none"
              THEN /\ runs' = [runs EXCEPT ![c] =
                                 [rec EXCEPT !.pc = "engine",
                                             !.engineCalls = @ + 1]]
                   /\ heap' = hp
                   /\ UNCHANGED <<semRunning, semQueue, events>>
              ELSE RunTail(c, rec, err, "php-wasm", stubs, hp, FALSE)
    /\ UNCHANGED <<runtime, nextRuntime, sapiName, engineSapiName,
                   listeners, messageListeners, messages, stubs, crashed,
                   lastOp, opCount>>

\* The engine call resolves with an exit code. #handleRequest reads the
\* response headers (httpStatusCode: the status the program wrote) and the
\* output streams and builds the response; run() throws the
\* PHPExecutionFailureError, which carries the response, for a non-zero exit
\* code.
EngineReturn(c, exitCode, httpStatusCode, trap) ==
    /\ c \in DOMAIN runs
    /\ runs[c].pc = "engine"
    /\ trap => ForeignPtr(runs[c])
    /\ LET built == ~("fileExists" \in stubs) /\ runtime # 0
           err == IF "fileExists" \in stubs THEN "crashedError"
                  ELSE IF runtime = 0 THEN "typeError"
                  ELSE IF exitCode # 0 THEN "execFailure"
                  ELSE "none"
           rec == IF built
                  THEN [runs[c] EXCEPT
                          !.response =
                              [status |-> ResponseStatus(exitCode, httpStatusCode),
                               exitCode |-> exitCode],
                          !.httpStatusCode = httpStatusCode]
                  ELSE runs[c]
       IN  RunTail(c, rec, err, ErrorSource(err), stubs, heap, trap)
    /\ UNCHANGED <<runtime, nextRuntime, webSapiInitialized, sapiName, engineSapiName,
                   
                   listeners, messageListeners, messages,
                   files, stubs, crashed, lastOp, opCount,
                   engineRequest>>

\* A #handleRequest that calls the engine again when the call rejects.
EngineCrashRetries(c, trap) ==
    /\ c \in DOMAIN runs
    /\ runs[c].pc = "engine"
    /\ runs' = [runs EXCEPT ![c].engineCalls = @ + 1]
    /\ UNCHANGED <<runtime, nextRuntime, webSapiInitialized, sapiName, engineSapiName,
                   
                   listeners, messageListeners, messages,
                   files, heap, semRunning, semQueue, events, stubs,
                   crashed, lastOp, opCount, engineRequest>>

\* The engine call rejects, or the engine reports an error event:
\* #handleRequest's catch block rebinds the function-valued properties the
\* loop visits and rethrows.
EngineCrash(c, trap) ==
    /\ c \in DOMAIN runs
    /\ runs[c].pc = "engine"
    /\ trap => ForeignPtr(runs[c])
    /\ stubs' = stubs \cup CrashStubs
    /\ crashed' = TRUE
    /\ RunTail(c, runs[c], "crashError", "php-wasm", stubs', heap, trap)
    /\ UNCHANGED <<runtime, nextRuntime, webSapiInitialized, sapiName, engineSapiName,
                   
                   listeners, messageListeners, messages,
                   files, lastOp, opCount, engineRequest>>

\* The record of a public operation other than run().
Done(op, result) ==
    /\ lastOp' = [op |-> op, result |-> result, afterCrash |-> crashed,
                  path |-> "", data |-> "", invoked |-> <<>>,
                  copied |-> <<>>, skipped |-> {}]
    /\ opCount' = opCount + 1

\* The record of a filesystem operation on a path: for writeFile the data
\* written, for readFileAsBuffer the data returned.
DoneAt(op, result, path, data) ==
    /\ lastOp' = [op |-> op, result |-> result, afterCrash |-> crashed,
                  path |-> path, data |-> data, invoked |-> <<>>,
                  copied |-> <<>>, skipped |-> {}]
    /\ opCount' = opCount + 1

\* addEventListener(eventType, listener): the listeners of a type are a Set.
AddEventListener(type, l) ==
    /\ IF "addEventListener" \in stubs
       THEN /\ Done("addEventListener", "crashedError")
            /\ UNCHANGED listeners
       ELSE /\ Done("addEventListener", "ok")
            /\ listeners' =
                 [listeners EXCEPT ![type] =
                    IF \E i \in DOMAIN @ : @[i] = l THEN @ ELSE Append(@, l)]
    /\ UNCHANGED <<runtime, nextRuntime, webSapiInitialized, sapiName,
                   engineSapiName, messageListeners, messages, files, heap,
                   semRunning, semQueue, runs, events, stubs, crashed,
                   engineRequest>>

\* An initializeRuntime that does not look at the runtime it owns.
AlreadyInitializedNever(rt) == FALSE

\* removeEventListener(eventType, listener)
RemoveEventListener(type, l) ==
    /\ IF "removeEventListener" \in stubs
       THEN /\ Done("removeEventListener", "crashedError")
            /\ UNCHANGED listeners
       ELSE /\ Done("removeEventListener", "ok")
            /\ listeners' =
                 [listeners EXCEPT ![type] = SelectSeq(@, LAMBDA x : x # l)]
    /\ UNCHANGED <<runtime, nextRuntime, webSapiInitialized, sapiName,
                   engineSapiName, messageListeners, messages, files, heap,
                   semRunning, semQueue, runs, events, stubs, crashed,
                   engineRequest>>

\* dispatchEvent(event), called by a user of the instance: the record of
\* the call names the listeners it called.
DispatchEvent(type) ==
    /\ LET d == Dispatch(stubs, events, Event(type, 0, "none"))
       IN  /\ events' = d.events
           /\ lastOp' = [op |-> "dispatchEvent",
                         result |-> ErrorAfter("ok", d.threw),
                         afterCrash |-> crashed, path |-> type, data |-> "",
                         invoked |-> IF d.threw = "crashed" THEN <<>>
                                     ELSE Invoked(listeners[type]),
                         copied |-> <<>>, skipped |-> {}]
           /\ opCount' = opCount + 1
    /\ UNCHANGED <<runtime, nextRuntime, webSapiInitialized, sapiName, engineSapiName,
                   
                   listeners, messageListeners, messages,
                   files, heap, semRunning, semQueue, runs, stubs,
                   crashed, engineRequest>>

\* initializeRuntime: `if (this[__private__dont__use])`
AlreadyInitialized(rt) == rt # 0

\* The filesystems of the runtimes handed to initializeRuntime: as loaded,
\* or with a php.ini or an auto-prepend script put there by the loader.
LoadedRuntimes ==
    {LoadedFS,
     FsWrite(LoadedFS, PHP_INI_PATH, "custom"),
     FsWrite(LoadedFS, AUTO_PREPEND_SCRIPT, "custom")}

\* The baseline path at which a loaded runtime already has a file, if any.
Preloaded(loaded) ==
    IF FileExists(loaded, PHP_INI_PATH) THEN PHP_INI_PATH
    ELSE IF FileExists(loaded, AUTO_PREPEND_SCRIPT) THEN AUTO_PREPEND_SCRIPT
    ELSE ""

\* initializeRuntime(runtimeId), loaded being the filesystem of the runtime
\* of that id.
InitializeRuntime(loaded) ==
    /\ IF "initializeRuntime" \in stubs
       THEN /\ Done("initializeRuntime", "crashedError")
            /\ UNCHANGED <<runtime, nextRuntime, files, events,
                           engineSapiName>>
       ELSE IF AlreadyInitialized(runtime)
       THEN /\ Done("initializeRuntime", "alreadyInitialized")
            /\ UNCHANGED <<runtime, nextRuntime, files, events,
                           engineSapiName>>
       ELSE LET d == Dispatch(stubs, events, Event("runtime.initialized", 0, "none"))
            IN  /\ runtime' = nextRuntime
                /\ nextRuntime' = nextRuntime + 1
                /\ files' = WithBaseline(loaded)
                /\ engineSapiName' = ""
                /\ events' = d.events
                /\ DoneAt("initializeRuntime", ErrorAfter("ok", d.threw),
                          Preloaded(loaded), "")
    /\ UNCHANGED <<webSapiInitialized, sapiName, listeners, messageListeners, messages,
                   heap, semRunning,
                   semQueue, runs, stubs, crashed,
                   engineRequest>>

\* setSapiName(newName): the engine refuses the name once its SAPI is set up.
SetSapiName(name) ==
    /\ IF "setSapiName" \in stubs
       THEN /\ Done("setSapiName", "crashedError")
            /\ UNCHANGED <<sapiName, engineSapiName>>
       ELSE IF runtime = 0
       THEN /\ Done("setSapiName", "typeError")
            /\ UNCHANGED <<sapiName, engineSapiName>>
       ELSE IF webSapiInitialized
       THEN /\ Done("setSapiName", "sapiNameError")
            /\ UNCHANGED <<sapiName, engineSapiName>>
       ELSE /\ Done("setSapiName", "ok")
            /\ sapiName' = name
            /\ engineSapiName' = name
    /\ UNCHANGED <<runtime, nextRuntime, webSapiInitialized, listeners, messageListeners, messages,
                   files,
                   heap, semRunning, semQueue, runs, events, stubs, crashed,
                   engineRequest>>

\* An exit() that leaves the SAPI flag as it is.
SapiFlagAfterExitKept(flag) == flag

\* exit(): `this.#webSapiInitialized = false`
SapiFlagAfterExit(flag) == FALSE

\* An exit() that dispatches its event and exits the engine but keeps its
\* link to the runtime.
ExitKeepsRuntime ==
    /\ events' = Dispatch(stubs, events,
                          Event("runtime.beforedestroy", 0, "none")).events
    /\ webSapiInitialized' = FALSE
    /\ Done("exit", "ok")
    /\ UNCHANGED <<runtime, nextRuntime, files, heap, engineRequest, sapiName, engineSapiName,
                   
                   listeners, messageListeners, messages,
                   semRunning, semQueue, runs, stubs, crashed>>

\* exit(code): the runtime.beforedestroy event, the engine's exit (whose error
\* is ignored), the reset of the SAPI flag, the detachment of the runtime.
Exit ==
    /\ IF "exit" \in stubs
       THEN /\ Done("exit", "crashedError")
            /\ UNCHANGED <<runtime, webSapiInitialized, files, events, heap,
                           engineRequest, engineSapiName>>
       ELSE LET d == Dispatch(stubs, events, Event("runtime.beforedestroy", 0, "none"))
            IN  /\ events' = d.events
                /\ IF d.threw # "none"
                   THEN /\ Done("exit", ErrorAfter("ok", d.threw))
                        /\ UNCHANGED <<runtime, webSapiInitialized, files,
                                       heap, engineRequest, engineSapiName>>
                   ELSE /\ webSapiInitialized' = SapiFlagAfterExit(webSapiInitialized)
                        /\ runtime' = 0
                        /\ files' = NoFS
                        /\ heap' = {b \in heap : b[1] # runtime}
                        /\ engineRequest' = 0
                        /\ engineSapiName' = ""
                        /\ Done("exit", IF runtime = 0 THEN "typeError" ELSE "ok")
    /\ UNCHANGED <<nextRuntime, sapiName, listeners, messageListeners, messages,
                   semRunning, semQueue,
                   runs, stubs, crashed>>

\* writeFile(path, data)
WriteFile(path, data) ==
    /\ IF "writeFile" \in stubs
       THEN /\ DoneAt("writeFile", "crashedError", path, data)
            /\ UNCHANGED files
       ELSE IF runtime = 0
       THEN /\ DoneAt("writeFile", "typeError", path, data)
            /\ UNCHANGED files
       ELSE IF ~CanWrite(files, path)
       THEN /\ DoneAt("writeFile", "fsError", path, data)
            /\ UNCHANGED files
       ELSE /\ DoneAt("writeFile", "ok", path, data)
            /\ files' = FsWrite(files, path, data)
    /\ UNCHANGED <<runtime, nextRuntime, webSapiInitialized, sapiName, engineSapiName,
                   
                   listeners, messageListeners, messages,
                   heap, semRunning, semQueue, runs, events, stubs,
                   crashed,
                   engineRequest>>

\* unlink(path)
Unlink(path) ==
    /\ IF "unlink" \in stubs
       THEN /\ Done("unlink", "crashedError")
            /\ UNCHANGED files
       ELSE IF runtime = 0
       THEN /\ Done("unlink", "typeError")
            /\ UNCHANGED files
       ELSE IF ~FileExists(files, path) \/ IsDir(files, path)
       THEN /\ Done("unlink", "fsError")
            /\ UNCHANGED files
       ELSE /\ Done("unlink", "ok")
            /\ files' = FsRemove(files, path)
    /\ UNCHANGED <<runtime, nextRuntime, webSapiInitialized, sapiName, engineSapiName,
                   
                   listeners, messageListeners, messages,
                   heap, semRunning, semQueue, runs, events, stubs,
                   crashed,
                   engineRequest>>

\* readFileAsBuffer(path)
ReadFileAsBuffer(path) ==
    /\ IF "readFileAsBuffer" \in stubs
       THEN DoneAt("readFileAsBuffer", "crashedError", path, "")
       ELSE IF runtime = 0
       THEN DoneAt("readFileAsBuffer", "typeError", path, "")
       ELSE IF ~FileExists(files, path) \/ IsDir(files, path)
       THEN DoneAt("readFileAsBuffer", "fsError", path, "")
       ELSE DoneAt("readFileAsBuffer", "ok", path, files[path].data)
    /\ UNCHANGED <<runtime, nextRuntime, webSapiInitialized, sapiName, engineSapiName,
                   
                   listeners, messageListeners, messages,
                   files, heap, semRunning, semQueue, runs, events,
                   stubs, crashed, engineRequest>>

\* mkdir(path)
Mkdir(path) ==
    /\ IF "mkdir" \in stubs
       THEN /\ Done("mkdir", "crashedError")
            /\ UNCHANGED files
       ELSE IF runtime = 0
       THEN /\ Done("mkdir", "typeError")
            /\ UNCHANGED files
       ELSE IF ~CanMkdirTree(files, path)
       THEN /\ Done("mkdir", "fsError")
            /\ UNCHANGED files
       ELSE /\ Done("mkdir", "ok")
            /\ files' = MkdirTree(files, path)
    /\ UNCHANGED <<runtime, nextRuntime, webSapiInitialized, sapiName, engineSapiName,
                   
                   listeners, messageListeners, messages,
                   heap, semRunning, semQueue, runs, events, stubs,
                   crashed, engineRequest>>

\* The paths of a host directory mounted at a path, and the filesystem
\* after the mount: the mount point is made if need be, the nodes below it
\* are those of the host directory.
MountPaths == {"/www", "/www/lib"}

HostPaths(path) == {q \in DirPaths \cup FilePaths : q # path /\ Under(path, q)}

Mounted(fs, path) ==
    LET made == MkdirTree(fs, path)
    IN  [q \in {r \in DOMAIN made : ~Under(path, r)} \cup {path}
              \cup HostPaths(path) |->
            IF q = path \/ q \in DirPaths \cap HostPaths(path)
            THEN MountedDirNode
            ELSE IF q \in HostPaths(path) THEN MountedFileNode("host")
            ELSE made[q]]

\* mount(virtualFSPath, mountHandler) with a handler that mounts a host
\* directory.
Mount(path) ==
    /\ IF "mount" \in stubs
       THEN /\ DoneAt("mount", "crashedError", path, "")
            /\ UNCHANGED files
       ELSE IF runtime = 0
       THEN /\ DoneAt("mount", "typeError", path, "")
            /\ UNCHANGED files
       ELSE IF ~CanMkdirTree(files, path)
       THEN /\ DoneAt("mount", "fsError", path, "")
            /\ UNCHANGED files
       ELSE /\ DoneAt("mount", "ok", path, "")
            /\ files' = Mounted(files, path)
    /\ UNCHANGED <<runtime, nextRuntime, webSapiInitialized, sapiName, engineSapiName,
                   
                   listeners, messageListeners, messages,
                   heap, semRunning, semQueue, runs, events, stubs,
                   crashed, engineRequest>>

\* What a message listener returns: nothing, a string, or a byte array of
\* some length.
Nothing == [type |-> "undefined", val |-> "", len |-> 0]

StringValue(val) == [type |-> "string", val |-> val, len |-> 0]

BytesValue(len) == [type |-> "bytes", val |-> "", len |-> len]

\* The message listeners registered: each a function of its own, named by
\* what it does with a message.
MessageListeners ==
    {"returnsNothing", "returnsEmptyString", "returnsA", "returnsB",
     "returnsNoBytes", "throws"}

ReturnData(l) ==
    CASE l = "returnsEmptyString" -> StringValue("")
      [] l = "returnsA" -> StringValue("A")
      [] l = "returnsB" -> StringValue("B")
      [] l = "returnsNoBytes" -> BytesValue(0)
      [] OTHER -> Nothing

\* A test that takes an empty byte array for no reply.
TruthyUnlessEmpty(value) ==
    (value.type = "string" /\ value.val # "") \/ (value.type = "bytes" /\ value.len > 0)

\* `if (returnData)`: undefined and the empty string are falsy, every other
\* string and every object, an empty Uint8Array included, is truthy.
Truthy(value) ==
    (value.type = "string" /\ value.val # "") \/ value.type = "bytes"

\* onMessage(listener): `this.#messageListeners.push(listener)`
OnMessage(l) ==
    /\ IF "onMessage" \in stubs
       THEN /\ Done("onMessage", "crashedError")
            /\ UNCHANGED messageListeners
       ELSE /\ Done("onMessage", "ok")
            /\ messageListeners' = Append(messageListeners, l)
    /\ UNCHANGED <<runtime, nextRuntime, webSapiInitialized, sapiName,
                   engineSapiName, listeners, messages, files, heap,
                   semRunning, semQueue, runs, events, stubs, crashed,
                   engineRequest>>

\* The handler's loop reaches the listener at position pos: past the end of
\* the array it returns '', else it calls the listener and awaits what it
\* returns, and a listener that throws rejects the handler's promise.
Offer(message, pos) ==
    IF pos > Len(messageListeners)
    THEN [message EXCEPT !.st = "replied", !.reply = StringValue("")]
    ELSE [message EXCEPT
            !.invoked = Append(@, messageListeners[pos]),
            !.st = IF messageListeners[pos] = "throws" THEN "rejected"
                   ELSE "awaiting"]

\* runtime.onMessage(data), called by the engine for a message the running
\* program pushes: the handler installed by initializeRuntime runs up to
\* its first await.
PushMessage ==
    /\ runtime # 0
    /\ \E c \in DOMAIN runs : runs[c].pc = "engine"
    /\ messages' =
          Append(messages,
                 Offer([invoked |-> <<>>, st |-> "pushed", reply |-> Nothing], 1))
    /\ UNCHANGED <<runtime, nextRuntime, webSapiInitialized, sapiName,
                   engineSapiName, listeners, messageListeners, files, heap,
                   semRunning, semQueue, runs, events, stubs, crashed, lastOp,
                   opCount, engineRequest>>

\* The handler resumes after `await listener(data)`: a truthy value is the
\* reply, any other value takes the loop to the next listener.
MessageResume(m) ==
    /\ m \in DOMAIN messages
    /\ messages[m].st = "awaiting"
    /\ LET pos == Len(messages[m].invoked)
           returnData == ReturnData(messageListeners[pos])
       IN  messages' =
             [messages EXCEPT ![m] =
                IF Truthy(returnData)
                THEN [@ EXCEPT !.st = "replied", !.reply = returnData]
                ELSE Offer(@, pos + 1)]
    /\ UNCHANGED <<runtime, nextRuntime, webSapiInitialized, sapiName,
                   engineSapiName, listeners, messageListeners, files, heap,
                   semRunning, semQueue, runs, events, stubs, crashed, lastOp,
                   opCount, engineRequest>>

\* The record of a hotSwapPHPRuntime(runtime, cwd) call that got as far as
\* the copy: the paths copied, in order, and the paths skipped.
SwapCopied(cwd, result, copy) ==
    /\ lastOp' = [op |-> "hotSwapPHPRuntime", result |-> result,
                  afterCrash |-> crashed, path |-> cwd, data |-> "",
                  invoked |-> <<>>, copied |-> copy.visited,
                  skipped |-> copy.skipped]
    /\ opCount' = opCount + 1

\* The record of a hotSwapPHPRuntime(runtime, cwd) call.
SwapDone(cwd, result) == SwapCopied(cwd, result, Copied(NoFS, TRUE, <<>>, {}))

\* The filesystem the swap copies from, taken after exit() detached it.
OldFSAfterExit(before, afterExit) == afterExit

\* `const oldFS = this[__private__dont__use].FS`, the first statement of
\* hotSwapPHPRuntime: the filesystem as it is before exit() is called.
OldFS(before, afterExit) == before

\* A swap that awaits between exit() and initializeRuntime(): the call that
\* finds a runtime attached detaches it and is suspended holding the old
\* filesystem; resumed, it attaches the new runtime and copies.
HotSwapYields(cwd) ==
    LET d1 == Dispatch(stubs, events, Event("runtime.beforedestroy", 0, "none"))
        d2 == Dispatch(stubs, events, Event("runtime.initialized", 0, "none"))
    IN  /\ IF runtime # 0
           THEN /\ SwapDone(cwd, "pending")
                /\ events' = d1.events
                /\ runtime' = 0
                /\ heap' = {b \in heap : b[1] # runtime}
                /\ UNCHANGED <<nextRuntime, files>>
           ELSE /\ SwapDone(cwd, "ok")
                /\ events' = d2.events
                /\ runtime' = nextRuntime
                /\ nextRuntime' = nextRuntime + 1
                /\ files' = CopyFS(files, WithBaseline(LoadedFS), cwd).fs
                /\ UNCHANGED heap
        /\ webSapiInitialized' = FALSE
        /\ engineRequest' = 0
        /\ engineSapiName' = IF runtime # 0 THEN "" ELSE sapiName
        /\ UNCHANGED <<sapiName, listeners, messageListeners, messages,
                       semRunning, semQueue, runs, stubs,
                       crashed>>

\* hotSwapPHPRuntime(runtime, cwd), which runs from its first statement to
\* its last without awaiting: the old filesystem is captured, exit() is
\* called and its error ignored, initializeRuntime(runtime) attaches the new
\* runtime, the SAPI name is set again, copyFS copies cwd.
HotSwap(cwd) ==
    LET d1 == Dispatch(stubs, events, Event("runtime.beforedestroy", 0, "none"))
        exited == "exit" \notin stubs /\ d1.threw = "none"
        evs1 == IF "exit" \in stubs THEN events ELSE d1.events
        d2 == Dispatch(stubs, evs1, Event("runtime.initialized", 0, "none"))
        fresh == WithBaseline(LoadedFS)
        oldFS == OldFS(files, NoFS)
        copy == IF cwd = "" THEN Copied(fresh, TRUE, <<>>, {})
                ELSE CopyFS(oldFS, fresh, cwd)
    IN  /\ IF "hotSwapPHPRuntime" \in stubs
           THEN /\ SwapDone(cwd, "crashedError")
                /\ UNCHANGED <<runtime, nextRuntime, webSapiInitialized, files,
                               heap, events, engineRequest, engineSapiName>>
           ELSE IF runtime = 0
           THEN /\ SwapDone(cwd, "typeError")
                /\ UNCHANGED <<runtime, nextRuntime, webSapiInitialized, files,
                               heap, events, engineRequest, engineSapiName>>
           ELSE IF ~exited
           THEN \* exit() threw: the old runtime is still attached
                /\ SwapDone(cwd, IF "initializeRuntime" \in stubs
                                 THEN "crashedError" ELSE "alreadyInitialized")
                /\ events' = evs1
                /\ UNCHANGED <<runtime, nextRuntime, webSapiInitialized, files,
                               heap, engineRequest, engineSapiName>>
           ELSE IF "initializeRuntime" \in stubs
           THEN /\ SwapDone(cwd, "crashedError")
                /\ events' = evs1
                /\ runtime' = 0
                /\ files' = NoFS
                /\ webSapiInitialized' = SapiFlagAfterExit(webSapiInitialized)
                /\ heap' = {b \in heap : b[1] # runtime}
                /\ engineRequest' = 0
                /\ engineSapiName' = ""
                /\ UNCHANGED nextRuntime
           ELSE /\ events' = d2.events
                /\ runtime' = nextRuntime
                /\ nextRuntime' = nextRuntime + 1
                /\ webSapiInitialized' = SapiFlagAfterExit(webSapiInitialized)
                /\ heap' = {b \in heap : b[1] # runtime}
                /\ engineRequest' = 0
                /\ IF d2.threw # "none"
                   THEN /\ SwapDone(cwd, ErrorAfter("ok", d2.threw))
                        /\ files' = fresh
                        /\ engineSapiName' = ""
                   ELSE IF sapiName # "" /\ "setSapiName" \in stubs
                   THEN /\ SwapDone(cwd, "crashedError")
                        /\ files' = fresh
                        /\ engineSapiName' = ""
                   ELSE /\ SwapCopied(cwd, IF copy.ok THEN "ok" ELSE "fsError",
                                       copy)
                        /\ files' = copy.fs
                        /\ engineSapiName' = sapiName
    /\ UNCHANGED <<sapiName, listeners, messageListeners, messages,
                   semRunning, semQueue, runs, stubs,
                   crashed>>

\* new PHP(runtimeId): the semaphore, then initializeRuntime(runtimeId), which
\* dispatches runtime.initialized to no listener yet.
InitPHP ==
    /\ runtime = 1
    /\ nextRuntime = 2
    /\ webSapiInitialized = FALSE
    /\ sapiName = ""
    /\ engineSapiName = ""
    /\ listeners = [t \in EventTypes |-> <<>>]
    /\ messageListeners = <<>>
    /\ messages = <<>>
    /\ files = WithBaseline(LoadedFS)
    /\ heap = {}
    /\ semRunning = 0
    /\ semQueue = <<>>
    /\ runs = <<>>
    /\ events = <<Event("runtime.initialized", 0, "none")>>
    /\ stubs = {}
    /\ crashed = FALSE
    /\ lastOp = [op |-> "none", result |-> "none", afterCrash |-> FALSE,
                 path |-> "", data |-> "", invoked |-> <<>>,
                  copied |-> <<>>, skipped |-> {}]
    /\ opCount = 0
    /\ engineRequest = 0

\* A pool on its own: the PHP instance stays as constructed.
NextPool ==
    \/ GetPrimaryPhp /\ UNCHANGED phpVars
    \/ AcquirePrimary /\ UNCHANGED phpVars
    \/ AcquireSecondary /\ UNCHANGED phpVars
    \/ \E s \in 1..(2 * MaxCalls) : FactoryDone(s) /\ UNCHANGED phpVars
    \/ \E s \in 1..(2 * MaxCalls) : AcquireTimeout(s) /\ UNCHANGED phpVars
    \/ \E c \in 1..MaxCalls : ReapPrimary(c) /\ UNCHANGED phpVars
    \/ \E c \in 1..MaxCalls : ReapSecondary(c) /\ UNCHANGED phpVars

InitPoolSpec == InitPool /\ InitPHP

SpecPool == InitPoolSpec /\ [][NextPool]_vars

\* One PHP instance on its own: the pool stays as constructed.
Next ==
    \/ \E req \in MixedRequests :
          Len(runs) < MaxRuns /\ RunCall(req) /\ UNCHANGED poolVars
    \/ \E c \in 1..MaxRuns, trap \in SetterTraps :
          RunStart(c, trap) /\ UNCHANGED poolVars
    \/ \E c \in 1..MaxRuns, exitCode \in {0, 1}, trap \in BOOLEAN :
          EngineReturn(c, exitCode, 200, trap) /\ UNCHANGED poolVars
    \/ \E c \in 1..MaxRuns, trap \in BOOLEAN :
          EngineCrash(c, trap) /\ UNCHANGED poolVars
    \/ \E type \in ListenTypes, l \in ListenerKinds :
          opCount < MaxOps /\ AddEventListener(type, l) /\ UNCHANGED poolVars
    \/ opCount < MaxOps /\ InitializeRuntime(LoadedFS) /\ UNCHANGED poolVars
    \/ opCount < MaxOps /\ SetSapiName("cli") /\ UNCHANGED poolVars
    \/ opCount < MaxOps /\ Exit /\ UNCHANGED poolVars
    \/ opCount < MaxOps /\ WriteFile(ScriptPath, "a") /\ UNCHANGED poolVars
    \/ opCount < MaxOps /\ Unlink(ScriptPath) /\ UNCHANGED poolVars

Init == InitPool /\ maxPhpInstances = 1 /\ InitPHP

Spec == Init /\ [][Next]_vars

\* The steps of run() call c: its try block once the semaphore is granted,
\* and the completion of its engine call, which resolves or rejects.
RunSteps(c) ==
    \/ \E trap \in SetterTraps : RunStart(c, trap) /\ UNCHANGED poolVars
    \/ \E exitCode \in {0, 1}, trap \in BOOLEAN :
          EngineReturn(c, exitCode, 200, trap) /\ UNCHANGED poolVars
    \/ \E trap \in BOOLEAN : EngineCrash(c, trap) /\ UNCHANGED poolVars

\* One PHP instance on which run() calls queue while listeners that throw
\* are registered and the runtime is detached.
NextLive ==
    \/ \E req \in MixedRequests :
          Len(runs) < MaxRuns /\ RunCall(req) /\ UNCHANGED poolVars
    \/ \E c \in 1..MaxRuns, trap \in SetterTraps :
          RunStart(c, trap) /\ UNCHANGED poolVars
    \/ \E c \in 1..MaxRuns, exitCode \in {0, 1}, trap \in BOOLEAN :
          EngineReturn(c, exitCode, 200, trap) /\ UNCHANGED poolVars
    \/ \E c \in 1..MaxRuns, trap \in BOOLEAN :
          EngineCrash(c, trap) /\ UNCHANGED poolVars
    \/ \E type \in {"request.error", "request.end"} :
          opCount < MaxOps /\ AddEventListener(type, "throws")
              /\ UNCHANGED poolVars
    \/ opCount < MaxOps /\ Exit /\ UNCHANGED poolVars

\* That instance, on which a run() that can take a step eventually takes
\* one: the continuation of a granted acquire() is run by the event loop, and
\* every engine call eventually resolves or rejects.
SpecLive ==
    Init /\ [][NextLive]_vars /\ \A c \in 1..MaxRuns : WF_vars(RunSteps(c))

\* One PHP instance, looked at one run() at a time: requests of every shape,
\* responses of several statuses.
NextRun ==
    \/ \E req \in AllRequests :
          Len(runs) < MaxDetailRuns /\ RunCall(req) /\ UNCHANGED poolVars
    \/ \E c \in 1..MaxDetailRuns, trap \in SetterTraps :
          RunStart(c, trap) /\ UNCHANGED poolVars
    \/ \E c \in 1..MaxDetailRuns, exitCode \in {0, 1},
          httpStatusCode \in HttpStatusCodes, trap \in BOOLEAN :
          EngineReturn(c, exitCode, httpStatusCode, trap) /\ UNCHANGED poolVars
    \/ \E c \in 1..MaxDetailRuns, trap \in BOOLEAN :
          EngineCrash(c, trap) /\ UNCHANGED poolVars
    \/ \E type \in {"request.error", "request.end"} :
          opCount < MaxOps /\ AddEventListener(type, "throws")
              /\ UNCHANGED poolVars
    \/ opCount < MaxOps /\ Exit /\ UNCHANGED poolVars
    \/ opCount < MaxOps /\ WriteFile(ScriptPath, "a") /\ UNCHANGED poolVars

SpecRun == Init /\ [][NextRun]_vars

\* The requests issued when only run() calls are made: inline code, with or
\* without a body.
FifoRequests == {r \in Requests : r.code}

\* One PHP instance on which only run() calls are made.
NextFifo ==
    \/ \E req \in FifoRequests :
          Len(runs) < MaxFifoRuns /\ RunCall(req) /\ UNCHANGED poolVars
    \/ \E c \in 1..MaxFifoRuns, trap \in SetterTraps :
          RunStart(c, trap) /\ UNCHANGED poolVars
    \/ \E c \in 1..MaxFifoRuns, exitCode \in {0, 1}, trap \in BOOLEAN :
          EngineReturn(c, exitCode, 200, trap) /\ UNCHANGED poolVars
    \/ \E c \in 1..MaxFifoRuns, trap \in BOOLEAN :
          EngineCrash(c, trap) /\ UNCHANGED poolVars

SpecFifo == Init /\ [][NextFifo]_vars

\* The request of a run() made while runtimes are detached, attached and
\* swapped.
LifeRequest ==
    [scriptPath |-> "", code |-> TRUE, body |-> FALSE, host |-> NoHost,
     protocol |-> "", https |-> ""]

\* The paths written, made and preserved when the runtime is swapped.
SwapFiles == {ScriptPath, PHP_INI_PATH, "/www/lib/a.php"}

SwapDirs == {"/www", "/www/lib"}

PreservePaths ==
    {"", "/", "/internal", "/www", "/www/lib", "/www/lib/a.php", "/nowhere"}

\* One PHP instance whose runtime is swapped between filesystem operations
\* and while a run() is in flight.
NextSwap ==
    \/ Len(runs) < MaxDetailRuns
          /\ RunCall(LifeRequest)
          /\ UNCHANGED poolVars
    \/ \E c \in 1..MaxDetailRuns : RunStart(c, "none") /\ UNCHANGED poolVars
    \/ \E c \in 1..MaxDetailRuns :
          EngineReturn(c, 0, 200, FALSE) /\ UNCHANGED poolVars
    \/ \E path \in SwapFiles, data \in {"a", "b"} :
          opCount < MaxFsOps /\ WriteFile(path, data) /\ UNCHANGED poolVars
    \/ \E path \in SwapFiles :
          opCount < MaxFsOps /\ ReadFileAsBuffer(path) /\ UNCHANGED poolVars
    \/ \E path \in SwapDirs :
          opCount < MaxFsOps /\ Mkdir(path) /\ UNCHANGED poolVars
    \/ opCount < MaxFsOps /\ Unlink(PHP_INI_PATH) /\ UNCHANGED poolVars
    \/ \E type \in {"runtime.beforedestroy", "runtime.initialized"} :
          opCount < MaxFsOps /\ AddEventListener(type, "throws")
              /\ UNCHANGED poolVars
    \/ opCount < MaxFsOps /\ SetSapiName("cli") /\ UNCHANGED poolVars
    \/ \E cwd \in PreservePaths :
          opCount < MaxFsOps /\ HotSwap(cwd) /\ UNCHANGED poolVars

SpecSwap == Init /\ [][NextSwap]_vars

\* One PHP instance whose running program pushes messages while message
\* listeners are registered.
NextMessages ==
    \/ Len(runs) < MaxDetailRuns /\ RunCall(LifeRequest) /\ UNCHANGED poolVars
    \/ \E c \in 1..MaxDetailRuns : RunStart(c, "none") /\ UNCHANGED poolVars
    \/ \E c \in 1..MaxDetailRuns :
          EngineReturn(c, 0, 200, FALSE) /\ UNCHANGED poolVars
    \/ \E l \in MessageListeners :
          opCount < MaxMessageListeners /\ OnMessage(l) /\ UNCHANGED poolVars
    \/ Len(messages) < MaxMessages /\ PushMessage /\ UNCHANGED poolVars
    \/ \E m \in 1..MaxMessages : MessageResume(m) /\ UNCHANGED poolVars

SpecMessages == Init /\ [][NextMessages]_vars

\* One PHP instance with host directories mounted into its filesystem, whose
\* runtime is swapped.
CopyFiles == {ScriptPath, "/www/lib/a.php"}

NextCopy ==
    \/ \E path \in CopyFiles :
          opCount < MaxCopyOps /\ WriteFile(path, "a") /\ UNCHANGED poolVars
    \/ \E path \in SwapDirs :
          opCount < MaxCopyOps /\ Mkdir(path) /\ UNCHANGED poolVars
    \/ \E path \in MountPaths :
          opCount < MaxCopyOps /\ Mount(path) /\ UNCHANGED poolVars
    \/ \E cwd \in PreservePaths :
          opCount < MaxCopyOps /\ HotSwap(cwd) /\ UNCHANGED poolVars

SpecCopy == Init /\ [][NextCopy]_vars

\* One PHP instance whose runtime is detached, attached and swapped between
\* run() calls.
NextLife ==
    \/ Len(runs) < MaxLifeRuns /\ RunCall(LifeRequest) /\ UNCHANGED poolVars
    \/ \E c \in 1..MaxLifeRuns : RunStart(c, "none") /\ UNCHANGED poolVars
    \/ \E c \in 1..MaxLifeRuns :
          EngineReturn(c, 0, 200, FALSE) /\ UNCHANGED poolVars
    \/ opCount < MaxLifeOps /\ Exit /\ UNCHANGED poolVars
    \/ \E loaded \in LoadedRuntimes :
          opCount < MaxLifeOps /\ InitializeRuntime(loaded)
              /\ UNCHANGED poolVars
    \/ \E cwd \in {"", "/"} :
          opCount < MaxLifeOps /\ HotSwap(cwd) /\ UNCHANGED poolVars
    \/ opCount < MaxLifeOps /\ WriteFile(PHP_INI_PATH, "a")
          /\ UNCHANGED poolVars
    \/ opCount < MaxLifeOps
          /\ AddEventListener("runtime.beforedestroy", "throws")
          /\ UNCHANGED poolVars

SpecLife == Init /\ [][NextLife]_vars

\* The Host headers of the form host or host:port.
HostHeaders == {h \in Hosts : h.scheme = ""}

\* The requests that differ in their Host header, their protocol and the
\* HTTPS entry of their $_SERVER defaults.
ServerRequests ==
    [scriptPath : {""}, code : {TRUE}, body : {FALSE}, host : HostHeaders,
     protocol : {"", "http", "https"}, https : {"", "on", "off"}]

\* One PHP instance that runs requests of every host, protocol and HTTPS
\* entry.
NextServer ==
    \/ \E req \in ServerRequests :
          Len(runs) < MaxDetailRuns /\ RunCall(req) /\ UNCHANGED poolVars
    \/ \E c \in 1..MaxDetailRuns : RunStart(c, "none") /\ UNCHANGED poolVars
    \/ \E c \in 1..MaxDetailRuns :
          EngineReturn(c, 0, 200, FALSE) /\ UNCHANGED poolVars

SpecServer == Init /\ [][NextServer]_vars

\* The listeners registered when only events are at stake: two that return
\* and one that throws.
EventListeners == {"quiet", "other", "throws"}

DispatchTypes == {"request.end", "request.error"}

\* One PHP instance on which listeners are added and removed and events are
\* dispatched.
NextEvents ==
    \/ \E type \in DispatchTypes, l \in EventListeners :
          opCount < MaxEventOps /\ AddEventListener(type, l)
              /\ UNCHANGED poolVars
    \/ \E type \in DispatchTypes, l \in EventListeners :
          opCount < MaxEventOps /\ RemoveEventListener(type, l)
              /\ UNCHANGED poolVars
    \/ \E type \in DispatchTypes :
          opCount < MaxEventOps /\ DispatchEvent(type) /\ UNCHANGED poolVars

SpecEvents == Init /\ [][NextEvents]_vars


\* ------------------------------------------------------------------------
\* Vocabulary of the pool's properties
\* ------------------------------------------------------------------------

\* The instances that exist or are being created: they hold a semaphore slot.
LiveInstances == {s \in DOMAIN spawns : spawns[s].st \in {"creating", "ready"}}

PrimarySpawns == {s \in DOMAIN spawns : spawns[s].isPrimary}

\* The acquirePHPInstance() calls, and the position of one among them.
AcquireCalls == {c \in DOMAIN calls : calls[c].kind \in {"acquire", "acquirePrimary"}}

Rank(c) == Cardinality({d \in AcquireCalls : d <= c})

\* Handles that were handed out and not reaped yet.
HeldCalls == {c \in AcquireCalls : calls[c].st = "ok" /\ ~calls[c].reaped}

NoReap == \A i \in DOMAIN hist : hist[i][1] # "reap"

\* No acquirePHPInstance() was refused for running into a primary that a
\* getPrimaryPhp() call was still creating.
NoPrimaryRace == \A c \in AcquireCalls : calls[c].st # "errPrimary"

\* The step issues a pool call; the record of the call it issues.
IssuesCall == Len(calls') = Len(calls) + 1

Issued == calls'[Len(calls')]

IssuesAcquire == IssuesCall /\ Issued.kind \in {"acquire", "acquirePrimary"}

\* The step is a reap(); the call whose handle it reaps.
IsReap == Len(hist') = Len(hist) + 1 /\ hist'[Len(hist')][1] = "reap"

LastOp == hist[Len(hist)]

\* The instance call c was served with, once it is served: the primary for a
\* call on the primary path, the instance of its spawn otherwise.
Served(cs, c) == IF cs[c].kind = "acquirePrimary" THEN cs[c].php ELSE cs[c].spawn

\* Within the first N acquires nobody waits or fails; from the (N+1)-th on
\* every acquire waits for a slot and can only fail.
AdmissionByRank ==
    \A c \in AcquireCalls :
        /\ Rank(c) <= maxPhpInstances =>
              /\ calls[c].st \in {"ok", "pending"}
              /\ calls[c].spawn # 0 =>
                    spawns[calls[c].spawn].st \in {"creating", "ready"}
        /\ Rank(c) > maxPhpInstances =>
              /\ calls[c].st \in {"errMax", "pending"}
              /\ spawns[calls[c].spawn].st \in {"waiting", "timedout"}

DistinctInstances ==
    \A c, d \in HeldCalls : c # d => calls[c].php # calls[d].php

CapRespected == Cardinality(LiveInstances) <= maxPhpInstances

C4_SinglePrimary ==
    /\ [][(IssuesCall /\ Issued.kind = "getPrimary"
             /\ \E s \in PrimarySpawns : spawns[s].st = "creating")
          => (Issued.st = "errPrimary" /\ factoryCalls' = factoryCalls
                /\ spawns' = spawns)]_vars
    /\ [](Cardinality(PrimarySpawns) <= 1)

C4_Witness ==
    \E c, d \in DOMAIN calls :
        /\ c < d
        /\ calls[c].kind = "getPrimary" /\ calls[d].kind = "getPrimary"
        /\ calls[c].st = "pending" /\ calls[d].st = "errPrimary"
        /\ factoryCalls = 1

\* C5: the factory is not invoked before the first pool call, its first
\* invocation is made by a getPrimaryPhp() or acquirePHPInstance() call and
\* creates the primary, and no later step creates another primary.
C5_LazyPrimary ==
    /\ [](calls = <<>> => factoryCalls = 0 /\ spawns = <<>>)
    /\ [][(factoryCalls = 0 /\ factoryCalls' > 0)
          => (IssuesCall /\ Issued.kind \in {"getPrimary", "acquirePrimary"}
                /\ factoryCalls' = 1 /\ spawns'[1].isPrimary)]_vars
    /\ [][\A s \in DOMAIN spawns' : spawns'[s].isPrimary => s = 1]_vars

C5_Witness ==
    /\ primaryPhp = 1
    /\ factoryCalls >= 2
    /\ \E c \in DOMAIN calls : calls[c].kind = "getPrimary" /\ calls[c].st = "ok"
                                  /\ calls[c].spawn = 0

\* The acquire issued by the step comes right after a reap() in the order of
\* the pool operations; the call whose handle that reap() gave back.
AcquireAfterReap == IssuesAcquire /\ hist # <<>> /\ LastOp[1] = "reap"

Reaped == calls[LastOp[2]]

\* The call issued by the step is admitted: it is served at once or waits for
\* nothing but the factory.
IssuedAdmitted ==
    /\ Issued.st \in {"ok", "pending"}
    /\ Issued.spawn # 0 => spawns'[Issued.spawn].st \in {"creating", "ready"}

\* C6 as stated: an acquire that follows a reap invokes the factory exactly
\* once and is served with another instance than the reaped one.
C6_Original ==
    [][AcquireAfterReap
       => (factoryCalls' = factoryCalls + 1
             /\ Served(calls', Len(calls')) # Served(calls, LastOp[2]))]_vars

\* C6 amended: an acquire that follows the reap of a secondary instance is
\* never served with the reaped instance, and invokes the factory exactly once
\* when the primary is busy and the reap took the pool from its cap to one
\* below it; an acquire that follows the reap of the primary's handle is served
\* with the same primary and invokes no factory.
C6_ReapThenAcquire ==
    /\ [][(AcquireAfterReap /\ Reaped.kind = "acquire")
          => Served(calls', Len(calls')) # Reaped.spawn]_vars
    /\ [][(AcquireAfterReap /\ Reaped.kind = "acquire" /\ ~primaryIdle
             /\ Cardinality(LiveInstances) = maxPhpInstances - 1)
          => factoryCalls' = factoryCalls + 1]_vars
    /\ [][(AcquireAfterReap /\ Reaped.kind = "acquirePrimary")
          => (factoryCalls' = factoryCalls /\ Issued.st = "ok"
                /\ Issued.php = Reaped.php)]_vars

C6_Witness ==
    /\ Len(hist) >= 2
    /\ hist[Len(hist) - 1][1] = "reap"
    /\ calls[hist[Len(hist) - 1][2]].kind = "acquire"
    /\ LastOp[1] = "acquire"
    /\ calls[LastOp[2]].kind = "acquire"
    /\ calls[LastOp[2]].st = "ok"
    /\ spawns[calls[hist[Len(hist) - 1][2]].spawn].st = "reaped"

\* The operations of the test "should not start a second PHP instance until
\* the first getInstance() call when the primary instance is busy".
TestSequence ==
    << <<"acquire", 1>>, <<"reap", 1>>, <<"acquire", 2>>, <<"reap", 2>>,
       <<"acquire", 3>>, <<"acquire", 4>> >>

\* An acquire made while the primary exists and is idle is served by the
\* primary without a factory invocation; a secondary spawn is started only by
\* an acquire made while the primary is busy.
PrimaryServesWhenIdle ==
    /\ [][(IssuesAcquire /\ primaryIdle /\ primaryPhp # 0)
          => (factoryCalls' = factoryCalls /\ Issued.st = "ok"
                /\ Issued.php = primaryPhp)]_vars
    /\ [][(\E s \in DOMAIN spawns' : s \notin DOMAIN spawns /\ ~spawns'[s].isPrimary)
          => (IssuesAcquire /\ ~primaryIdle)]_vars

\* C7 as stated: the factory call count along the test's sequence is 1, 1 and
\* 3, whatever the cap.
C7_Original ==
    /\ PrimaryServesWhenIdle
    /\ [](/\ hist = SubSeq(TestSequence, 1, 1) => factoryCalls = 1
          /\ hist = SubSeq(TestSequence, 1, 3) => factoryCalls = 1
          /\ hist = TestSequence => factoryCalls = 3)

\* C7 amended: the count after the last acquire is 3 for a cap of at least 3
\* (the test's cap is 5); it is 2 for a cap of 2 and 1 for a cap of 1.
C7_PrimaryReuse ==
    /\ PrimaryServesWhenIdle
    /\ [](/\ hist = SubSeq(TestSequence, 1, 1) => factoryCalls = 1
          /\ hist = SubSeq(TestSequence, 1, 3) => factoryCalls = 1
          /\ hist = TestSequence =>
                factoryCalls = IF maxPhpInstances >= 3 THEN 3 ELSE maxPhpInstances)

C7_Witness == hist = TestSequence /\ maxPhpInstances >= 3 /\ factoryCalls = 3

\* The step reaps the handle of a secondary instance / of the primary.
ReapsSecondary == IsReap /\ calls[hist'[Len(hist')][2]].kind = "acquire"

ReapsPrimary == IsReap /\ calls[hist'[Len(hist')][2]].kind = "acquirePrimary"

\* C8 as stated: a reap at the cap lowers the number of live instances by one.
C8_Original ==
    [][(IsReap /\ Cardinality(LiveInstances) = maxPhpInstances)
       => Cardinality(LiveInstances') = Cardinality(LiveInstances) - 1]_vars

\* C8 amended: at the cap, the reap of a secondary instance lowers the number
\* of live instances by exactly one when no acquire waits for a slot, and hands
\* the slot to a waiting acquire otherwise (the number stays at the cap); the
\* reap of the primary's handle destroys nothing and marks the primary idle.
\* The acquire that follows a reap is admitted, unless the freed slot went to
\* an acquire that was waiting (the pool is then still at its cap).
C8_ReapFreesSlot ==
    /\ [][(ReapsSecondary /\ Cardinality(LiveInstances) = maxPhpInstances)
          => Cardinality(LiveInstances') =
                IF poolQueue = <<>> THEN maxPhpInstances - 1 ELSE maxPhpInstances]_vars
    /\ [][ReapsPrimary => (LiveInstances' = LiveInstances /\ primaryIdle')]_vars
    /\ [][(AcquireAfterReap
             /\ (Reaped.kind = "acquirePrimary"
                   \/ Cardinality(LiveInstances) < maxPhpInstances))
          => IssuedAdmitted]_vars

C8_Witness ==
    /\ Len(hist) >= 2
    /\ hist[Len(hist) - 1][1] = "reap"
    /\ calls[hist[Len(hist) - 1][2]].kind = "acquire"
    /\ LastOp[1] = "acquire"
    /\ calls[LastOp[2]].kind = "acquire"
    /\ Cardinality(LiveInstances) = maxPhpInstances
    /\ \E c \in AcquireCalls : calls[c].st = "errMax"

Holding == {c \in DOMAIN runs : runs[c].pc \in {"acquired", "engine"}}

\* The number of events of a type dispatched by run() call c.
Dispatched(type, c) ==
    Cardinality({i \in DOMAIN events :
                    events[i].type = type /\ events[i].run = c})

\* C1: on one PHP instance at most one run() is between the acquisition and
\* the release of the semaphore, however many run() calls are pending: a
\* second one waits in the semaphore's queue, and the semaphore's count of
\* taken slots never exceeds one.
C1_MutualExclusion ==
    /\ Cardinality(Holding) <= 1
    /\ semRunning <= 1
    /\ \A c \in DOMAIN runs :
          runs[c].pc = "waiting" => Holding # {} /\ ~runs[c].acquired

\* C1: a run() is inside the engine call while another run() waits.
C1_Witness ==
    \E c, d \in DOMAIN runs :
        /\ runs[c].pc = "engine"
        /\ runs[d].pc = "waiting"

\* C2: a run() that acquired the semaphore and has completed released it
\* once and dispatched one request.end event, whatever its outcome; before it
\* completes it has released nothing and dispatched no request.end; a run()
\* that never acquired does neither. The slots taken are those of the run()
\* calls in progress.
C2_ReleaseAndEndOnce ==
    /\ \A c \in DOMAIN runs :
          IF runs[c].acquired /\ runs[c].pc = "done"
          THEN runs[c].releases = 1 /\ Dispatched("request.end", c) = 1
          ELSE runs[c].releases = 0 /\ Dispatched("request.end", c) = 0
    /\ semRunning = Cardinality(Holding)

\* C2: a run() has ended in an engine crash, and another one, whose runtime
\* was detached during the engine call, in the failure to free its body
\* buffer.
C2_Witness ==
    \E c, d \in DOMAIN runs :
        /\ runs[c].acquired /\ runs[c].pc = "done"
        /\ runs[c].outcome = "crashError"
        /\ runs[d].acquired /\ runs[d].pc = "done"
        /\ runs[d].outcome = "freeError"

\* C10: once a run() has crashed the engine, every public operation invoked
\* afterwards fails with the 'PHP runtime has crashed' error: a later run()
\* is refused without taking the semaphore, and a later operation of another
\* kind ends in that error.
C10_CrashPermanence ==
    /\ \A c \in DOMAIN runs :
          runs[c].afterCrash =>
              /\ runs[c].pc = "done"
              /\ ~runs[c].acquired
              /\ runs[c].outcome = "crashedError"
    /\ lastOp.afterCrash => lastOp.result = "crashedError"

\* C11: whenever #handleRequest has built the Response of a run(), its status
\* is 500 if the engine's exit code is not 0, whatever status the program
\* wrote to the headers file, and the status the program wrote if the exit
\* code is 0.
C11_StatusFromExitCode ==
    \A c \in DOMAIN runs :
        runs[c].response # NoResponse =>
            /\ runs[c].response.exitCode # 0 => runs[c].response.status = 500
            /\ runs[c].response.exitCode = 0 =>
                   runs[c].response.status = runs[c].httpStatusCode

\* C11: the engine has returned a non-zero exit code to a run() whose program
\* wrote status 404.
C11_Witness ==
    \E c \in DOMAIN runs :
        /\ runs[c].response # NoResponse
        /\ runs[c].response.exitCode # 0
        /\ runs[c].httpStatusCode = 404
        /\ runs[c].response.status = 500

\* The places in the event log of the events of a type dispatched by run()
\* call c.
EventsOf(type, c) ==
    {i \in DOMAIN events : events[i].type = type /\ events[i].run = c}

\* A listener that throws is registered for an event run() dispatches.
ThrowingRunListener ==
    \E type \in {"request.error", "request.end"} :
        \E i \in DOMAIN listeners[type] : listeners[type][i] = "throws"

StartsRun(c) == runs[c].pc = "acquired" /\ runs'[c].pc # "acquired"

FindsScriptMissing(c) ==
    /\ StartsRun(c)
    /\ runtime # 0
    /\ runs[c].req.scriptPath # ""
    /\ runs[c].req.scriptPath \notin DOMAIN files

\* C14 as stated: a run() that fails for its missing script path leaves the
\* engine's state as it was, the SAPI initialization included, also when it
\* is the first run() of the instance.
C14_Original ==
    [][\A c \in DOMAIN runs :
          FindsScriptMissing(c) =>
              /\ webSapiInitialized' = webSapiInitialized
              /\ engineRequest' = engineRequest
              /\ heap' = heap
              /\ files' = files]_vars

\* C14: a run() that fails for its missing script path writes no request
\* state into the engine (URI, method, host, port, headers, body, script
\* path, $_SERVER and environment entries), allocates no buffer and writes
\* no file; the one-time SAPI setup precedes the check, so the SAPI is
\* initialized after the failure even if it was not before.
C14_FailsBeforeRequestState ==
    [][\A c \in DOMAIN runs :
          FindsScriptMissing(c) =>
              /\ webSapiInitialized'
              /\ engineRequest' = engineRequest
              /\ heap' = heap
              /\ files' = files
              /\ runtime' = runtime]_vars

\* C14: the first run() of the instance has failed for its missing script
\* path; the SAPI is initialized and the engine holds no request.
C14_Witness ==
    /\ Len(runs) >= 1
    /\ runs[1].pc = "done"
    /\ runs[1].thrown = "missingScript"
    /\ webSapiInitialized
    /\ engineRequest = 0

\* The request sets both inline code and a script path, or neither.
MixesModes(req) == req.code = (req.scriptPath # "")

\* C15: a run() whose request sets both inline code and a script path, or
\* neither, never reaches the engine call and ends in a configuration error.
C15_ExactlyOneMode ==
    \A c \in DOMAIN runs :
        MixesModes(runs[c].req) =>
            /\ runs[c].engineCalls = 0
            /\ runs[c].pc # "engine"
            /\ runs[c].pc = "done" => runs[c].thrown = "configError"

\* C19: run() calls are admitted in the order they asked for the semaphore:
\* when a call has been admitted, every call that asked before it has
\* completed and released the semaphore, having made its engine call unless
\* it failed before reaching it, and dispatched its request.end event before
\* any event of the later call; the calls that wait are queued in the order
\* they asked.
C19_Fifo ==
    /\ \A c, d \in DOMAIN runs :
          (c < d /\ runs[d].acquired) =>
              /\ runs[c].pc = "done"
              /\ runs[c].releases = 1
              /\ runs[c].engineCalls = 1 \/ runs[c].thrown # "none"
              /\ \A i \in DOMAIN events : \A j \in DOMAIN events :
                     (events[i].run = c /\ events[j].run = d) => i < j
    /\ \A i, j \in DOMAIN semQueue : i < j => semQueue[i] < semQueue[j]

\* C19: a run() that joined the queue behind another waiting run() is in its
\* engine call.
C19_Witness ==
    \E d \in DOMAIN runs :
        /\ runs[d].queuedAt = 2
        /\ runs[d].pc = "engine"

\* C20: a run() that has completed has freed every body buffer it allocated,
\* once, whatever its outcome, and once every run() has completed no body
\* buffer remains allocated in engine memory.
C20_BodyBufferFreed ==
    /\ \A c \in DOMAIN runs :
          runs[c].pc = "done" => runs[c].frees = runs[c].allocs
    /\ (\A c \in DOMAIN runs : runs[c].pc = "done") => heap = {}

\* The step is a hotSwapPHPRuntime(runtime, cwd) call with a path to
\* preserve that returned.
SwapReturned ==
    /\ opCount' = opCount + 1
    /\ lastOp'.op = "hotSwapPHPRuntime"
    /\ lastOp'.result = "ok"
    /\ lastOp'.path # ""

\* Every file and directory the old filesystem has under the preserved path
\* is in the new filesystem with the same contents.
PreservedUnderPath ==
    \A p \in DOMAIN files :
        Under(lastOp'.path, p) => p \in DOMAIN files' /\ files'[p] = files[p]

\* C16 as stated: after hotSwapPHPRuntime(newRuntime, preservePath) every
\* file and directory under preservePath in the old filesystem is in the new
\* one with identical contents, and no path outside preservePath that only
\* the old filesystem had is in the new one.
C16_Original ==
    [][SwapReturned =>
          /\ PreservedUnderPath
          /\ \A p \in DOMAIN files \ DOMAIN WithBaseline(LoadedFS) :
                ~Under(lastOp'.path, p) => p \notin DOMAIN files']_vars

\* C16, amended: when hotSwapPHPRuntime(newRuntime, preservePath) returns,
\* every file and directory under preservePath in the old filesystem is in
\* the new one with identical contents; of the paths outside preservePath
\* that only the old filesystem had, the new one has none but the directories
\* above a preservePath that existed, and what the new filesystem had outside
\* preservePath is as initializeRuntime left it. When the new filesystem
\* refuses a write of the copy the call throws after the swap: here, when
\* preservePath is a file of the old filesystem whose directory the new one
\* lacks, and nothing is copied.
C16_PreservedUnderPath ==
    [][/\ SwapReturned =>
             /\ PreservedUnderPath
             /\ \A p \in DOMAIN files \ DOMAIN WithBaseline(LoadedFS) :
                   ~Under(lastOp'.path, p) /\ p \in DOMAIN files' =>
                       /\ p \in AncestorsOrSelf(lastOp'.path)
                       /\ FileExists(files, lastOp'.path)
                       /\ IsDir(files', p)
             /\ \A p \in DOMAIN WithBaseline(LoadedFS) :
                   ~Under(lastOp'.path, p) =>
                       files'[p] = WithBaseline(LoadedFS)[p]
       /\ (opCount' = opCount + 1 /\ lastOp'.op = "hotSwapPHPRuntime"
              /\ lastOp'.result = "fsError") =>
             /\ FileExists(files, lastOp'.path)
             /\ ~IsDir(files, lastOp'.path)
             /\ ~IsDir(WithBaseline(LoadedFS), Parent(lastOp'.path))
             /\ files' = WithBaseline(LoadedFS)]_vars

\* A swap that preserved /www returned: the file written below it is in the
\* filesystem of the second runtime, the script written beside it is not.
C16_Witness ==
    /\ lastOp.op = "hotSwapPHPRuntime"
    /\ lastOp.result = "ok"
    /\ lastOp.path = "/www"
    /\ runtime = 2
    /\ FileExists(files, "/www/lib/a.php")
    /\ files["/www/lib/a.php"].data = "b"
    /\ ~FileExists(files, ScriptPath)
    /\ opCount = MaxFsOps

\* C18: in the copy of a hot swap, a path the new filesystem already has
\* (such as the php.ini initializeRuntime wrote) is left alone: its node has
\* after the copy the contents it had before.
C18_ConflictKeepsDestination ==
    [][SwapReturned =>
          \A p \in DOMAIN files \cap DOMAIN WithBaseline(LoadedFS) :
              Under(lastOp'.path, p) =>
                  /\ p \in DOMAIN files'
                  /\ files'[p] = WithBaseline(LoadedFS)[p]]_vars

\* The step is a hotSwapPHPRuntime call, however it ended.
SwapStep == opCount' = opCount + 1 /\ lastOp'.op = "hotSwapPHPRuntime"

\* The step appended the events of a swap and nothing else.
SwapEventsAppended ==
    /\ Len(events') = Len(events) + 2
    /\ SubSeq(events', 1, Len(events)) = events
    /\ events'[Len(events) + 1].type = "runtime.beforedestroy"
    /\ events'[Len(events) + 2].type = "runtime.initialized"

\* C17: hotSwapPHPRuntime is atomic with respect to every other operation.
\* A swap is one step, from the capture of the old filesystem to the end of
\* the copy: no other caller's step finds the instance without a runtime,
\* only a swap changes the runtime, the step of a swap moves no run() and logs
\* no event but its own two, and everything the old filesystem had under the
\* preserved path when the step began, every earlier write included, is in
\* the filesystem of the runtime attached when it ends.
C17_SwapAtomic ==
    [][/\ runtime # 0 /\ runtime' # 0
       /\ ~SwapStep => runtime' = runtime
       /\ SwapStep =>
             /\ runs' = runs /\ semQueue' = semQueue /\ semRunning' = semRunning
             /\ lastOp'.result \in
                    {"ok", "fsError", "listenerError", "alreadyInitialized"}
             /\ lastOp'.result = "alreadyInitialized" =>
                    runtime' = runtime /\ files' = files
             /\ lastOp'.result # "alreadyInitialized" =>
                    runtime' = nextRuntime /\ SwapEventsAppended
             /\ lastOp'.result = "ok" => PreservedUnderPath]_vars

\* The runtime was swapped, preserving /www, while a run() was suspended in
\* its engine call and after a file was written under /www.
C17_Witness ==
    /\ lastOp.op = "hotSwapPHPRuntime"
    /\ lastOp.result = "ok"
    /\ lastOp.path = "/www"
    /\ runtime = 2
    /\ \E c \in DOMAIN runs : runs[c].pc = "engine"
    /\ FileExists(files, "/www/lib/a.php")

\* The step is an initializeRuntime call.
InitStep == opCount' = opCount + 1 /\ lastOp'.op = "initializeRuntime"

\* C21: initializeRuntime on an instance that owns a runtime fails with 'PHP
\* runtime already initialized.' and changes nothing: the runtime, the
\* filesystem and the listeners are as before and no runtime.initialized
\* event is dispatched.
C21_AlreadyInitialized ==
    [][(InitStep /\ runtime # 0) =>
          /\ lastOp'.result = "alreadyInitialized"
          /\ runtime' = runtime
          /\ nextRuntime' = nextRuntime
          /\ files' = files
          /\ listeners' = listeners
          /\ events' = events
          /\ webSapiInitialized' = webSapiInitialized]_vars

\* initializeRuntime was refused on an instance that had written to its
\* filesystem: the runtime and the file are as they were.
C21_Witness ==
    /\ lastOp.op = "initializeRuntime"
    /\ lastOp.result = "alreadyInitialized"
    /\ runtime = 1
    /\ opCount >= 2
    /\ files[PHP_INI_PATH].data = "a"

\* The step is an initializeRuntime call that attached the runtime.
InitStepAttached ==
    InitStep /\ lastOp'.result \in {"ok", "listenerError"}

\* C22: initializeRuntime writes php.ini and the auto-prepend script only
\* where the runtime's filesystem has no file: a file the runtime already has
\* at either path keeps its contents, the other path gets the baseline.
C22_BaselineOnlyWhenAbsent ==
    [][InitStepAttached =>
          /\ FileExists(files', PHP_INI_PATH)
          /\ FileExists(files', AUTO_PREPEND_SCRIPT)
          /\ \A p \in {PHP_INI_PATH, AUTO_PREPEND_SCRIPT} :
                files'[p].data =
                    IF p = lastOp'.path THEN "custom" ELSE "baseline"]_vars

\* A runtime that came with its own php.ini was attached: the php.ini is the
\* runtime's, the auto-prepend script is the baseline.
C22_Witness ==
    /\ lastOp.op = "initializeRuntime"
    /\ lastOp.result = "ok"
    /\ lastOp.path = PHP_INI_PATH
    /\ runtime = 2
    /\ files[PHP_INI_PATH].data = "custom"
    /\ files[AUTO_PREPEND_SCRIPT].data = "baseline"

\* The step is a call of the filesystem method op.
FsStep(op) == opCount' = opCount + 1 /\ lastOp'.op = op

C24_Original ==
    [][FsStep("dispatchEvent") =>
          lastOp'.invoked = listeners[lastOp'.path]]_vars

\* C24, amended: dispatchEvent calls, before it returns, the listeners
\* registered for the event's type in registration order, up to and including
\* the first that throws, whose exception ends the call; it calls every one
\* of them when none throws, and none registered for another type or removed.
C24_ListenersInOrderUntilThrow ==
    [][FsStep("dispatchEvent") =>
          LET ls == listeners[lastOp'.path]
              inv == lastOp'.invoked
          IN  /\ Len(inv) <= Len(ls)
              /\ \A i \in DOMAIN inv : inv[i] = ls[i]
              /\ \A i \in DOMAIN inv : i < Len(inv) => inv[i] # "throws"
              /\ Len(inv) < Len(ls) => Len(inv) > 0 /\ inv[Len(inv)] = "throws"
              /\ lastOp'.result =
                    IF \E i \in DOMAIN ls : ls[i] = "throws"
                    THEN "listenerError" ELSE "ok"
              /\ listeners' = listeners]_vars

\* Three listeners were registered for request.error and the event was
\* dispatched: the first was called, then the second, which threw; the third
\* was not called.
C24_Witness ==
    /\ lastOp.op = "dispatchEvent"
    /\ lastOp.path = "request.error"
    /\ lastOp.result = "listenerError"
    /\ listeners["request.error"] = <<"quiet", "throws", "other">>
    /\ lastOp.invoked = <<"quiet", "throws">>

\* C25: nothing is retried. A run() invokes the engine's request handler at
\* most once, and a run() that failed in the engine, by a non-zero exit code
\* or a crash, has invoked it once and has thrown to its caller.
C25_NoRetry ==
    \A c \in DOMAIN runs :
        /\ runs[c].engineCalls <= 1
        /\ runs[c].pc = "engine" => runs[c].engineCalls = 1
        /\ (runs[c].pc = "done"
              /\ runs[c].outcome \in {"execFailure", "crashError"}) =>
                 runs[c].engineCalls = 1 /\ runs[c].thrown # "none"

\* Two run() calls have failed, one by its exit code and one by a crash, each
\* after one call into the engine.
C25_Witness ==
    /\ \E c \in DOMAIN runs :
          /\ runs[c].pc = "done" /\ runs[c].outcome = "execFailure"
          /\ runs[c].engineCalls = 1
    /\ \E c \in DOMAIN runs :
          /\ runs[c].pc = "done" /\ runs[c].outcome = "crashError"
          /\ runs[c].engineCalls = 1

\* The port a Host header names, as a number: 0 when it names none.
HeaderPort(host) ==
    CASE host.port = "80" -> 80
      [] host.port = "443" -> 443
      [] host.port = "8080" -> 8080
      [] OTHER -> 0

\* A run() has given its request to the engine.
RequestGiven(c) == runs[c].pc \in {"engine", "done"} /\ runs[c].engineCalls = 1

\* C26: the HTTPS entry of $_SERVER given to the engine is the caller's HTTPS
\* entry when the caller gave one, and otherwise 'on' when the inferred port
\* is 443 and 'off' for any other port.
C26_HttpsEntry ==
    \A c \in DOMAIN runs :
        RequestGiven(c) =>
            runs[c].https =
                IF runs[c].req.https # "" THEN runs[c].req.https
                ELSE IF runs[c].port = 443 THEN "on" ELSE "off"

\* C27: the port given to the engine is the port of the Host header when
\* that is a valid positive port other than 80, as 8080 for
\* 'example.com:8080', and otherwise 443 for the protocol 'https' and 80 for
\* any other.
C27_PortFromHost ==
    \A c \in DOMAIN runs :
        RequestGiven(c) =>
            runs[c].port =
                IF HeaderPort(runs[c].req.host) \notin {0, 80}
                THEN HeaderPort(runs[c].req.host)
                ELSE IF ProtocolOf(runs[c].req) = "https" THEN 443 ELSE 80

\* The step appended one event, of the given type.
OneEventAppended(type) ==
    /\ Len(events') = Len(events) + 1
    /\ SubSeq(events', 1, Len(events)) = events
    /\ events'[Len(events')].type = type

\* The step takes run() call c from the semaphore's grant into its try block.
RunStarts(c) ==
    /\ c \in DOMAIN runs
    /\ runs[c].pc = "acquired"
    /\ runs'[c].pc # "acquired"

\* C28 as stated: exit() dispatches runtime.beforedestroy, detaches the
\* runtime and resets the SAPI flag, and the teardown also emits a request-end
\* event.
C28_Original ==
    [][(FsStep("exit") /\ runtime # 0) =>
          /\ runtime' = 0
          /\ ~webSapiInitialized'
          /\ \E i \in DOMAIN events' :
                i > Len(events) /\ events'[i].type = "runtime.beforedestroy"
          /\ \E i \in DOMAIN events' :
                i > Len(events) /\ events'[i].type = "request.end"]_vars

\* C28, amended: exit() on an instance that owns a runtime dispatches
\* runtime.beforedestroy, and no other event, before anything is torn down.
\* When no listener of that event throws it then detaches the runtime and
\* resets the SAPI flag, so that a following initializeRuntime succeeds and
\* the next run() performs the SAPI setup on the new runtime; when one
\* throws, exit() throws and the runtime stays attached.
C28_ExitDetaches ==
    [][/\ (FsStep("exit") /\ runtime # 0) =>
             /\ OneEventAppended("runtime.beforedestroy")
             /\ lastOp'.result \in {"ok", "listenerError"}
             /\ lastOp'.result = "ok" =>
                    runtime' = 0 /\ ~webSapiInitialized' /\ files' = NoFS
             /\ lastOp'.result = "listenerError" =>
                    /\ runtime' = runtime /\ files' = files
                    /\ webSapiInitialized' = webSapiInitialized
       /\ (InitStep /\ lastOp.op = "exit" /\ lastOp.result = "ok") =>
             lastOp'.result = "ok" /\ runtime' = nextRuntime
       /\ \A c \in DOMAIN runs :
             (RunStarts(c) /\ lastOp.op = "initializeRuntime"
                /\ lastOp.result = "ok"
                /\ \A d \in DOMAIN runs : runs[d].startRuntime # runtime) =>
                 runs'[c].sapiInit = runtime /\ webSapiInitialized']_vars

\* A run() set up the SAPI on the first runtime, exit() detached it,
\* initializeRuntime attached a second, and the next run() set up the SAPI
\* on that.
C28_Witness ==
    /\ Len(runs) = 2
    /\ runs[1].sapiInit = 1
    /\ runs[2].sapiInit = 2
    /\ lastOp.op = "initializeRuntime"
    /\ lastOp.result = "ok"
    /\ opCount = 2
    /\ runtime = 2

\* C29: the one-time SAPI setup (php_wasm_init) is performed exactly once per
\* runtime, by the first run() that enters its try block on the runtime and
\* by no later one, whatever run(), exit(), initializeRuntime and hot-swap
\* calls are made: a run() sets the SAPI up on the runtime it started on
\* exactly when no earlier run() started on that runtime.
C29_SapiInitOncePerRuntime ==
    \A c \in DOMAIN runs :
        /\ runs[c].sapiInit \in {0, runs[c].startRuntime}
        /\ runs[c].startRuntime # 0 =>
              ((runs[c].sapiInit = runs[c].startRuntime) <=>
               (\A d \in 1..(c - 1) :
                    runs[d].startRuntime # runs[c].startRuntime))

\* A run() set the SAPI up on the first runtime, the runtime was swapped, and
\* a second run() set the SAPI up on the second runtime and completed.
C29_Witness ==
    /\ Len(runs) = 2
    /\ runs[1].startRuntime = 1 /\ runs[1].sapiInit = 1
    /\ runs[2].startRuntime = 2 /\ runs[2].sapiInit = 2
    /\ lastOp.op = "hotSwapPHPRuntime"
    /\ lastOp.result = "ok"
    /\ runs[2].pc = "done"

\* The step appended the request.end event of run() call c last.
EndsWithRequestEnd(c) ==
    /\ Len(events') > Len(events)
    /\ events'[Len(events')].type = "request.end"
    /\ events'[Len(events')].run = c

SwapCanAttach ==
    /\ runtime # 0
    /\ stubs = {}
    /\ \A i \in DOMAIN listeners["runtime.initialized"] :
          listeners["runtime.initialized"][i] # "throws"

\* C31: an error raised while the old module is destroyed during
\* hotSwapPHPRuntime, by the engine's exit or by a runtime.beforedestroy
\* listener, is ignored: the swap installs the new runtime and does not raise
\* because of it.
C31_DestroyErrorsIgnored ==
    [][(SwapStep /\ SwapCanAttach) =>
          /\ runtime' = nextRuntime
          /\ lastOp'.result \in {"ok", "fsError"}]_vars

\* The step is a hotSwapPHPRuntime call that reached its copy.
SwapCopies ==
    /\ SwapStep
    /\ lastOp'.path # ""
    /\ lastOp'.result \in {"ok", "fsError"}

\* A node of the old filesystem the copy is to reach: it lies under the
\* preserved path and it and every node from it up to the preserved path is
\* a node of the in-memory filesystem.
Reachable(fs, root, p) ==
    /\ FileExists(fs, root)
    /\ p \in DOMAIN fs
    /\ Under(root, p)
    /\ \A q \in AncestorsOrSelf(p) : Under(root, q) => fs[q].contents

\* The position of a path in a sequence without repetitions, 0 if absent.
IndexOf(seq, p) ==
    IF \E i \in DOMAIN seq : seq[i] = p
    THEN CHOOSE i \in DOMAIN seq : seq[i] = p
    ELSE 0

\* C32: the copy of a hot swap visits a directory before its children and
\* depth-first, and copies only nodes of the in-memory filesystem: a node of
\* another mount type is skipped together with everything below it, and a
\* preservePath the old filesystem lacks makes the copy a no-op that does
\* not throw.
C32_CopyOrder ==
    [][SwapCopies =>
          LET v == lastOp'.copied
              root == lastOp'.path
          IN  /\ \A i, j \in DOMAIN v : v[i] = v[j] => i = j
              /\ \A i \in DOMAIN v : Reachable(files, root, v[i])
              /\ lastOp'.result = "ok" =>
                    \A p \in DOMAIN files :
                        Reachable(files, root, p) => IndexOf(v, p) > 0
              /\ \A i \in DOMAIN v :
                    v[i] # root =>
                        /\ IndexOf(v, Parent(v[i])) > 0
                        /\ IndexOf(v, Parent(v[i])) < i
              /\ \A i, k \in DOMAIN v :
                    (i < k /\ Under(v[i], v[k])) =>
                        \A j \in i..k : Under(v[i], v[j])
              /\ \A p \in DOMAIN files :
                    (Under(root, p) /\ ~Reachable(files, root, p)) =>
                        /\ IndexOf(v, p) = 0
                        /\ p \in DOMAIN files' =>
                              p \in DOMAIN WithBaseline(LoadedFS)
              /\ \A p \in lastOp'.skipped :
                    /\ p \in DOMAIN files /\ ~files[p].contents
                    /\ \A q \in DOMAIN files : Under(p, q) => IndexOf(v, q) = 0
              /\ ~FileExists(files, root) =>
                    /\ lastOp'.result = "ok"
                    /\ v = <<>>
                    /\ files' = WithBaseline(LoadedFS)]_vars

\* A swap that preserved / returned on a filesystem with a host directory
\* mounted at /www/lib: /www and the script were copied after /, the mount
\* point was skipped and nothing of the mount is in the new filesystem.
C32_Witness ==
    /\ lastOp.op = "hotSwapPHPRuntime"
    /\ lastOp.result = "ok"
    /\ lastOp.path = "/"
    /\ lastOp.copied[1] = "/"
    /\ \E i \in DOMAIN lastOp.copied : lastOp.copied[i] = "/www"
    /\ \E i \in DOMAIN lastOp.copied : lastOp.copied[i] = ScriptPath
    /\ lastOp.skipped = {"/www/lib"}
    /\ ~FileExists(files, "/www/lib")
    /\ runtime = 2

\* C33: a hot swap dispatches runtime.beforedestroy for the old runtime and
\* then runtime.initialized for the new one, each exactly once, and the SAPI
\* name set before the swap is the SAPI name of the new runtime's engine.
C33_SwapEventsAndSapiName ==
    [][(SwapStep /\ runtime # 0 /\ stubs = {}) =>
          /\ SwapEventsAppended
          /\ runtime' = nextRuntime
          /\ engineSapiName' = sapiName]_vars

\* The value is not empty: a string or a byte array with something in it.
NonEmpty(value) ==
    (value.type = "string" /\ value.val # "")
        \/ (value.type = "bytes" /\ value.len > 0)

\* The value is a string with something in it or a byte array of any length.
StringOrBytes(value) ==
    (value.type = "string" /\ value.val # "") \/ value.type = "bytes"

\* The step in which the handler returns its reply to message m.
Replies(m) ==
    /\ messages'[m].st = "replied"
    /\ m \in DOMAIN messages => messages[m].st # "replied"

\* C34 as stated: a message is offered to the message listeners in
\* registration order, the first listener that returns a non-empty value
\* determines the reply and no later listener is invoked, and the reply is
\* the empty string when no listener returns a value.
C34_Original ==
    [][\A m \in DOMAIN messages' :
          LET inv == messages'[m].invoked
              last == ReturnData(inv[Len(inv)])
          IN  /\ inv = SubSeq(messageListeners', 1, Len(inv))
              /\ \A i \in DOMAIN inv :
                    i < Len(inv) => ~NonEmpty(ReturnData(inv[i]))
              /\ Replies(m) =>
                    IF inv # <<>> /\ NonEmpty(last)
                    THEN messages'[m].reply = last
                    ELSE /\ messages'[m].reply = StringValue("")
                         /\ Len(inv) = Len(messageListeners')]_vars

\* C34, amended: a message is offered to the message listeners in
\* registration order; the first listener that returns a non-empty string
\* or a byte array, be it empty, determines the reply and no later listener
\* is invoked; a listener that throws ends the delivery without a reply and
\* no later listener is invoked; when every listener registered has returned
\* nothing or the empty string the reply is the empty string.
C34_FirstReplyWins ==
    [][\A m \in DOMAIN messages' :
          LET inv == messages'[m].invoked
              last == ReturnData(inv[Len(inv)])
          IN  /\ inv = SubSeq(messageListeners', 1, Len(inv))
              /\ \A i \in DOMAIN inv :
                    i < Len(inv) =>
                        ~StringOrBytes(ReturnData(inv[i])) /\ inv[i] # "throws"
              /\ messages'[m].st = "rejected" <=>
                    (inv # <<>> /\ inv[Len(inv)] = "throws")
              /\ Replies(m) =>
                    IF inv # <<>> /\ StringOrBytes(last)
                    THEN messages'[m].reply = last
                    ELSE /\ messages'[m].reply = StringValue("")
                         /\ Len(inv) = Len(messageListeners')]_vars

\* Three listeners are registered; a message was offered to the first, which
\* returned the empty string, and to the second, whose empty byte array is
\* the reply; the third was not invoked.
C34_Witness ==
    /\ messageListeners = <<"returnsEmptyString", "returnsNoBytes", "returnsA">>
    /\ Len(messages) >= 1
    /\ messages[1].st = "replied"
    /\ messages[1].invoked = <<"returnsEmptyString", "returnsNoBytes">>
    /\ messages[1].reply = BytesValue(0)

\* The request.error events of run() call c carry the caught error's source,
\* 'request' for the PHPExecutionFailureError and 'php-wasm' for any other
\* error, and precede the request.end event of the call.
ErrorEventsSourcedAndFirst(c) ==
    \A i \in EventsOf("request.error", c) :
        /\ events[i].source =
              IF events[i].error = "execFailure" THEN "request" ELSE "php-wasm"
        /\ \A j \in EventsOf("request.end", c) : i < j

\* C35 as stated: one request.error event for every run() that fails after
\* acquiring the semaphore and none for a run() that returns a Response, with
\* the error's own source or 'php-wasm', before the request.end event of the
\* same run().
C35_Original ==
    \A c \in DOMAIN runs :
        /\ Cardinality(EventsOf("request.error", c)) =
              IF runs[c].acquired /\ runs[c].pc = "done"
                    /\ runs[c].outcome # "response"
              THEN 1 ELSE 0
        /\ ErrorEventsSourcedAndFirst(c)

\* C35, amended: one request.error event is dispatched for every run() whose
\* try block fails (the SAPI setup, a missing script path, a request setter,
\* an engine crash, a response that cannot be read, a non-zero exit code) and
\* none for a run() whose try block returns the Response, with the error's own
\* source or 'php-wasm', before the request.end event of the same run(). A
\* run() that returns a Response dispatched none; a run() that fails only in
\* its finally block, because free() or a request.end listener throws,
\* fails without a request.error event.
C35_ErrorEventPerFailedTry ==
    \A c \in DOMAIN runs :
        /\ Cardinality(EventsOf("request.error", c)) =
              IF runs[c].acquired /\ runs[c].pc = "done"
                    /\ runs[c].thrown # "none"
              THEN 1 ELSE 0
        /\ ErrorEventsSourcedAndFirst(c)
        /\ runs[c].pc = "done" =>
              /\ runs[c].outcome = "response" => runs[c].thrown = "none"
              /\ (runs[c].thrown = "none" /\ runs[c].outcome # "response") =>
                    runs[c].outcome \in {"freeError", "listenerError"}
              /\ \A i \in EventsOf("request.error", c) :
                    events[i].error = runs[c].thrown

\* A run() whose script path was missing has failed after its request.error
\* and request.end events were dispatched, in that order.
C35_Witness ==
    \E c \in DOMAIN runs :
        /\ runs[c].pc = "done"
        /\ runs[c].thrown = "missingScript"
        /\ \E i \in EventsOf("request.error", c) :
              /\ events[i].source = "php-wasm"
              /\ \E j \in EventsOf("request.end", c) : i < j

\* run() call c has completed after a listener of one of its events threw.
ListenerThrewIn(c) ==
    /\ runs[c].pc = "done"
    /\ runs[c].acquired
    /\ \E i \in DOMAIN events :
          /\ events[i].run = c
          /\ events[i].type \in {"request.error", "request.end"}
          /\ \E k \in DOMAIN listeners[events[i].type] :
                listeners[events[i].type][k] = "throws"

\* C36: a listener that throws cannot keep the execution semaphore held. A
\* run() that has completed with a throwing request.error or request.end
\* listener registered has released the semaphore once, and no run() waits
\* in the queue behind it unless another run() now holds the semaphore: the
\* slot went to the run() that waited longest.
C36_ThrowingListenerReleases ==
    \A c \in DOMAIN runs :
        ListenerThrewIn(c) =>
            /\ runs[c].releases = 1
            /\ semRunning = Cardinality(Holding)
            /\ \A d \in DOMAIN runs :
                  d > c =>
                      /\ runs[d].pc = "waiting" =>
                            \E h \in Holding : h > c /\ h < d
                      /\ runs[d].pc # "waiting" => runs[d].acquired

\* The first run() ended in the error of a throwing listener and the run()
\* queued behind it holds the semaphore.
C36_Witness ==
    /\ Len(runs) >= 2
    /\ runs[1].pc = "done"
    /\ runs[1].outcome = "listenerError"
    /\ runs[2].queuedAt = 1
    /\ runs[2].pc \in {"acquired", "engine"}

\* C37: hotSwapPHPRuntime never takes effect while a run() is suspended in
\* its engine call: no swap replaces the runtime while a run() is in the
\* engine, and the step in which a run() leaves the engine call, reads its
\* response and frees its body buffer finds the runtime its engine call was
\* made on.
C37_NoSwapDuringEngineCall ==
    [][/\ (SwapStep /\ runtime' # runtime) =>
             \A c \in DOMAIN runs : runs[c].pc # "engine"
       /\ \A c \in DOMAIN runs :
             (runs[c].pc = "engine" /\ runs'[c].pc = "done") =>
                 runtime = runs[c].startRuntime]_vars

\* C38: provided every engine call eventually resolves or rejects, every
\* run() call eventually completes, by returning or by throwing, the calls
\* queued on the semaphore behind a run() that failed or crashed included.
C38_EveryRunCompletes ==
    \A c \in 1..MaxRuns :
        (Len(runs) >= c) ~> (Len(runs) >= c /\ runs[c].pc = "done")

\* A run() that waited in the semaphore's queue while the run() before it
\* crashed the engine has completed.
C38_Witness ==
    /\ Len(runs) >= 2
    /\ runs[1].pc = "done"
    /\ runs[1].outcome = "crashError"
    /\ runs[2].queuedAt = 1
    /\ runs[2].pc = "done"

====
